---- MODULE Spec2Model ----
(***************************************************************************)
(* A model of spectra/__init__.py: the Spectrum class (three numpy arrays  *)
(* x, y, e with a medium tag and two unit tags), its arithmetic operators, *)
(* its indexing and resampling, and its in-place mutators.                 *)
(*                                                                         *)
(* Numbers.  A float64 is modelled as a fixed-point integer with ONE units *)
(* per 1.0 (so 1.5 is 3*ONE/2), rounded to nearest, together with the      *)
(* three IEEE special values PInf, NInf and NaN.  Magnitudes above FMax    *)
(* overflow to an infinity as float64 does beyond 1.8e308.  There is no    *)
(* signed zero.                                                            *)
(*                                                                         *)
(* Arrays.  A numpy array is a buffer on a heap; a Spectrum field is a     *)
(* view (buffer, offset, length) of one, so that two Spectrum objects can  *)
(* share memory exactly where the code lets them (abs, slices, masks).     *)
(***************************************************************************)
EXTENDS Integers, Sequences, FiniteSets, TLC

(* ------------------------------ bounds -------------------------------- *)
\* longest array a caller passes in
MaxLen == 2
\* number of Spectrum variables the caller holds
NSlots == 2
\* number of calls (constructor calls included) in one run
MaxOps == 3
\* fixed-point resolution: units per 1.0
ONE == 100
\* largest finite magnitude (in units of 1/ONE)
FMax == 2000000

(* --------------------------- float64 values --------------------------- *)
PInf == FMax + 1
NInf == 0 - PInf
NaN == FMax + 2

IsNaN(a) == a = NaN
IsInf(a) == a = PInf \/ a = NInf
IsFin(a) == ~IsNaN(a) /\ ~IsInf(a)

Abs(a) == IF a < 0 THEN 0 - a ELSE a
Sgn(a) == IF a > 0 THEN 1 ELSE IF a < 0 THEN 0 - 1 ELSE 0

\* n >= 0, d > 0: n/d rounded to nearest
RDiv(n, d) == (n + (d \div 2)) \div d

\* a finite result n (any integer that fits) brought into the float range
Ovf(n) == IF n > FMax THEN PInf ELSE IF n < 0 - FMax THEN NInf ELSE n

SInf(s) == IF s >= 0 THEN PInf ELSE NInf

FNeg(a) == IF IsNaN(a) THEN NaN ELSE 0 - a
FAbs(a) == IF IsNaN(a) THEN NaN ELSE Abs(a)

FAdd(a, b) ==
  IF IsNaN(a) \/ IsNaN(b) THEN NaN
  ELSE IF IsInf(a) THEN (IF IsInf(b) /\ a # b THEN NaN ELSE a)
  ELSE IF IsInf(b) THEN b
  ELSE Ovf(a + b)

FSub(a, b) == FAdd(a, FNeg(b))

FMul(a, b) ==
  IF IsNaN(a) \/ IsNaN(b) THEN NaN
  ELSE IF a = 0 \/ b = 0 THEN (IF IsInf(a) \/ IsInf(b) THEN NaN ELSE 0)
  ELSE IF IsInf(a) \/ IsInf(b) THEN SInf(Sgn(a) * Sgn(b))
  ELSE IF Abs(b) > (FMax * ONE) \div Abs(a) THEN SInf(Sgn(a) * Sgn(b))
  ELSE Sgn(a) * Sgn(b) * RDiv(Abs(a) * Abs(b), ONE)

FDiv(a, b) ==
  IF IsNaN(a) \/ IsNaN(b) THEN NaN
  ELSE IF IsInf(a) THEN (IF IsInf(b) THEN NaN
                         ELSE IF b < 0 THEN FNeg(a) ELSE a)
  ELSE IF IsInf(b) THEN 0
  ELSE IF b = 0 THEN (IF a = 0 THEN NaN ELSE SInf(Sgn(a)))
  ELSE Ovf(Sgn(a) * Sgn(b) * RDiv(Abs(a) * ONE, Abs(b)))

\* a >= 0 as numpy evaluates it: False for NaN
FGe0(a) == ~IsNaN(a) /\ a >= 0

RECURSIVE ISqrtR(_, _, _)
ISqrtR(n, lo, hi) ==
  IF hi - lo <= 1 THEN lo
  ELSE LET mid == (lo + hi) \div 2
       IN IF mid * mid <= n THEN ISqrtR(n, mid, hi) ELSE ISqrtR(n, lo, mid)

\* the integer nearest to sqrt(n), 0 <= n < 2^31
ISqrt(n) ==
  LET r == ISqrtR(n, 0, 46341)
  IN IF n - r * r > r THEN r + 1 ELSE r

\* sqrt of a float value
FSqrt(a) ==
  IF IsNaN(a) THEN NaN
  ELSE IF a = PInf THEN PInf
  ELSE IF a < 0 THEN NaN
  ELSE ISqrt(a * ONE)

\* np.hypot: an infinity wins over NaN
FHypot(a, b) ==
  IF IsInf(a) \/ IsInf(b) THEN PInf
  ELSE IF IsNaN(a) \/ IsNaN(b) THEN NaN
  ELSE IF Abs(a) <= 30000 /\ Abs(b) <= 30000
       THEN ISqrt(a * a + b * b)
       ELSE Ovf(ONE * ISqrt((Abs(a) \div ONE) * (Abs(a) \div ONE)
                          + (Abs(b) \div ONE) * (Abs(b) \div ONE)))

RECURSIVE IPow(_, _)
IPow(a, n) == IF n = 0 THEN ONE ELSE FMul(a, IPow(a, n - 1))

\* np.power(a, p) for a float a and a scalar p that is integral or one half
FPow(a, p) ==
  IF p = 0 THEN ONE
  ELSE IF IsNaN(a) THEN NaN
  ELSE IF p % ONE = 0
       THEN (IF p > 0 THEN IPow(a, p \div ONE)
             ELSE FDiv(ONE, IPow(a, (0 - p) \div ONE)))
  ELSE FSqrt(a)

(* ------------------------------ sequences ----------------------------- *)
Map1(F(_), s) == [i \in 1..Len(s) |-> F(s[i])]
Map2(F(_, _), s, t) == [i \in 1..Len(s) |-> F(s[i], t[i])]
MapK(F(_, _), s, k) == [i \in 1..Len(s) |-> F(s[i], k)]
AllOf(P(_), s) == \A i \in 1..Len(s) : P(s[i])
AnyOf(P(_), s) == \E i \in 1..Len(s) : P(s[i])

RECURSIVE Insert(_, _)
Insert(v, s) ==
  IF s = <<>> THEN <<v>>
  ELSE IF v <= Head(s) THEN <<v>> \o s
  ELSE <<Head(s)>> \o Insert(v, Tail(s))

RECURSIVE Sorted(_)
Sorted(s) == IF s = <<>> THEN <<>> ELSE Insert(Head(s), Sorted(Tail(s)))

\* np.percentile(a, pc), linear interpolation between order statistics;
\* pc is a whole number of percent in 0..100
percentile(a, pc) ==
  IF Len(a) = 0 \/ AnyOf(IsNaN, a) THEN NaN
  ELSE LET s    == Sorted(a)
           rank == pc * (Len(a) - 1)
           lo   == rank \div 100
           fr   == rank % 100
       IN IF fr = 0 THEN s[lo + 1]
          ELSE FAdd(s[lo + 1],
                    FMul(FSub(s[lo + 2], s[lo + 1]), RDiv(fr * ONE, 100)))

(* -------------------------------- units ------------------------------- *)
\* A unit is its exponent on each base unit; astropy's Unit(s).to_string()
\* gives equal strings exactly for equal exponents.
Bases == {"AA", "nm", "um", "flam", "Jy"}
UNone == [b \in Bases |-> 0]
UBase(n) == [b \in Bases |-> IF b = n THEN 1 ELSE 0]
UMul(u1, u2) == [b \in Bases |-> u1[b] + u2[b]]
UInv(u1) == [b \in Bases |-> 0 - u1[b]]
UDiv(u1, u2) == UMul(u1, UInv(u2))
UAA == UBase("AA")
Unm == UBase("nm")
UinvUm == UInv(UBase("um"))
Uflam == UBase("flam")
UJy == UBase("Jy")
\* astropy.units.Unit(s) for the unit strings the model passes around;
\* any other string does not parse (ValueError)
Parseable == {"AA", "Angstrom", "nm", "1/um", "erg/(s cm^2 AA)",
              "erg/(s cm2 AA)", "Jy", ""}
Unit(str) ==
  CASE str \in {"AA", "Angstrom"} -> UAA
    [] str = "nm" -> Unm
    [] str = "1/um" -> UinvUm
    [] str \in {"erg/(s cm^2 AA)", "erg/(s cm2 AA)"} -> Uflam
    [] str = "Jy" -> UJy
    [] str = "" -> UNone

Spectral == {UAA, Unm, UinvUm}

\* x.to(new, u.spectral()) for one value: wavelength in Angstrom or nm,
\* or wavenumber in 1/um
ToAA(v, u1) ==
  IF u1 = UAA THEN v
  ELSE IF u1 = Unm THEN FMul(v, 10 * ONE)
  ELSE FDiv(10000 * ONE, v)
FromAA(v, u2) ==
  IF u2 = UAA THEN v
  ELSE IF u2 = Unm THEN FDiv(v, 10 * ONE)
  ELSE FDiv(10000 * ONE, v)
spectral(v, u1, u2) == IF u1 = u2 THEN v ELSE FromAA(ToAA(v, u1), u2)

\* y.to(new, u.spectral_density(x)) for one value: F_nu = F_lambda * lambda^2 / c.
\* The modelled Jy is scaled so that the factor is 1 at LamRef Angstrom.
LamRef == 5000 * ONE
LamSq(xAA) == LET r == FDiv(xAA, LamRef) IN FMul(r, r)
spectral_density(v, xAA, u1, u2) ==
  IF u1 = u2 THEN v
  ELSE IF u1 = Uflam THEN FMul(v, LamSq(xAA))
  ELSE FDiv(v, LamSq(xAA))

(* ------------------------- air / vacuum formulae ---------------------- *)
\* n (an unscaled whole number) divided by the float d, as a whole number
\* of parts per million, or an IEEE special value
QDiv(n, d) ==
  IF IsNaN(d) THEN NaN
  ELSE IF IsInf(d) THEN 0
  ELSE IF d = 0 THEN PInf
  ELSE Sgn(d) * RDiv(n * ONE, Abs(d))

\* w * ppm / 10^6 for finite w and a finite whole number ppm
PpmOf(w, ppm) ==
  IF Abs(ppm) <= 1000
  THEN Sgn(w) * Sgn(ppm) * RDiv(Abs(w) * Abs(ppm), 1000000)
  ELSE Sgn(w) * Sgn(ppm) * RDiv(Abs(w), 1000) * RDiv(Abs(ppm), 1000)

\* (n - 1) * 10^6 for the refractive index n of the two VALD3 formulae,
\* from s*s with s = 1e4 / W
Refr(W, c0, c1, d1, c2, d2) ==
  LET s  == FDiv(10000 * ONE, W)
      s2 == FMul(s, s)
      t1 == QDiv(c1, FSub(d1, s2))
      t2 == QDiv(c2, FSub(d2, s2))
  IN IF IsNaN(t1) \/ IsNaN(t2) THEN NaN
     ELSE IF IsInf(t1) \/ IsInf(t2) THEN PInf
     ELSE c0 + t1 + t2

\* n = 1.0000834254 + 0.02406147/(130 - s^2) + 0.00015998/(38.9 - s^2);
\* returns Wvac / n
vac_to_air(Wvac) ==
  LET ppm == Refr(Wvac, 83, 24061, 130 * ONE, 160, (389 * ONE) \div 10)
  IN IF IsNaN(Wvac) \/ IsNaN(ppm) THEN NaN
     ELSE IF IsInf(ppm) THEN (IF IsInf(Wvac) THEN NaN ELSE 0)
     ELSE IF IsInf(Wvac) THEN Wvac
     ELSE IF 1000000 + ppm = 0 THEN (IF Wvac = 0 THEN NaN ELSE SInf(Sgn(Wvac)))
     ELSE IF Abs(ppm) <= 1000
          THEN Wvac - Sgn(Wvac) * Sgn(ppm)
                      * RDiv(Abs(Wvac) * Abs(ppm), 1000000 + ppm)
          ELSE Ovf(Sgn(Wvac) * Sgn(1000000 + ppm)
                   * RDiv(Abs(Wvac) * 1000, Abs((1000000 + ppm) \div 1000) + 1))

\* n = 1.00008336624212083 + 0.02408926869968/(130.1065924522 - s^2)
\*     + 0.0001599740894897/(38.92568793293 - s^2); returns Wair * n
air_to_vac(Wair) ==
  LET ppm == Refr(Wair, 83, 24089, (13011 * ONE) \div 100, 160,
                  (3893 * ONE) \div 100)
  IN IF IsNaN(Wair) \/ IsNaN(ppm) THEN NaN
     ELSE IF IsInf(ppm) THEN (IF Wair = 0 THEN NaN ELSE SInf(Sgn(Wair)))
     ELSE IF IsInf(Wair) THEN Wair
     ELSE Ovf(Wair + PpmOf(Wair, ppm))

(* --------------------------- arrays on a heap ------------------------- *)
Slots == 1..NSlots
BufIds == 1..(3 * NSlots + 3)

\* dt is the array's dtype: "i" (int64) or "f" (float64)
FreeBuf == [d |-> <<>>, dt |-> "free"]
NoView == [b |-> 0, o |-> 0, n |-> 0]

\* the values seen through a view
Rd(h, v) == [i \in 1..v.n |-> h[v.b].d[v.o + i]]
DtOf(h, v) == h[v.b].dt

\* an in-place write of the values s through the view v
Wr(h, v, s) ==
  [h EXCEPT ![v.b].d = [j \in 1..Len(@) |->
      IF j > v.o /\ j <= v.o + v.n THEN s[j - v.o] ELSE @[j]]]

\* an array handed to a constructor: an existing view (with the values
\* seen through it), or a new array
Shared(v, d, dt) == [sh |-> TRUE, v |-> v, d |-> d, dt |-> dt]
Fresh(d, dt) == [sh |-> FALSE, v |-> NoView, d |-> d, dt |-> dt]

MinOf(S) == CHOOSE m \in S : \A k \in S : m <= k
FreeIds(h) == {b \in BufIds : h[b].dt = "free"}

Alloc(h, f) ==
  IF f.sh THEN [h |-> h, v |-> f.v]
  ELSE LET b == MinOf(FreeIds(h))
       IN [h |-> [h EXCEPT ![b] = [d |-> f.d, dt |-> f.dt]],
           v |-> [b |-> b, o |-> 0, n |-> Len(f.d)]]

(* ------------------------------ Spectrum ------------------------------ *)
\* __slots__ without name and head; masked/mask: the three arrays are
\* numpy masked arrays carrying this mask
NoSpec == [live |-> FALSE, x |-> NoView, y |-> NoView, e |-> NoView,
           masked |-> FALSE, mask |-> <<>>,
           wave |-> "", x_unit |-> UNone, y_unit |-> UNone]

Refs(sp) == IF sp.live THEN {sp.x.b, sp.y.b, sp.e.b} ELSE {}

\* buffers no live Spectrum refers to are released
GC(h, ss) ==
  [b \in BufIds |-> IF \E k \in Slots : b \in Refs(ss[k]) THEN h[b] ELSE FreeBuf]

\* a Spectrum with the values of its arrays read out (xv, yv, ev: where
\* they live)
NoVal == [live |-> FALSE, x |-> <<>>, y |-> <<>>, e |-> <<>>,
          xv |-> NoView, yv |-> NoView, ev |-> NoView,
          xdt |-> "f", ydt |-> "f", edt |-> "f",
          masked |-> FALSE, mask |-> <<>>,
          wave |-> "", x_unit |-> UNone, y_unit |-> UNone]
Val(h, sp) ==
  IF ~sp.live THEN NoVal
  ELSE [live |-> TRUE, x |-> Rd(h, sp.x), y |-> Rd(h, sp.y), e |-> Rd(h, sp.e),
        xv |-> sp.x, yv |-> sp.y, ev |-> sp.e,
        xdt |-> DtOf(h, sp.x), ydt |-> DtOf(h, sp.y), edt |-> DtOf(h, sp.e),
        masked |-> sp.masked, mask |-> sp.mask,
        wave |-> sp.wave, x_unit |-> sp.x_unit, y_unit |-> sp.y_unit]

\* np.all(e >= 0.): masked elements are skipped, and the result for an
\* array whose elements are all masked is the masked constant (false)
AllGe0(e, masked, mask) ==
  IF ~masked THEN AllOf(FGe0, e)
  ELSE /\ \A i \in 1..Len(e) : mask[i] \/ FGe0(e[i])
       /\ (Len(e) = 0 \/ \E i \in 1..Len(e) : ~mask[i])

\* the asserts of Spectrum.__init__ on the values of the three arrays
InitAsserts(x, y, e, masked, mask) ==
  /\ Len(x) = Len(y) /\ Len(y) = Len(e)
  /\ AllGe0(e, masked, mask)

\* Spectrum(x, y, e, name, wave, x_unit, y_unit) called by a method with
\* units that are already Unit(...).to_string() strings: the object, or
\* the exception raised
NoRes == [out |-> "none", fx |-> Fresh(<<>>, "f"), fy |-> Fresh(<<>>, "f"),
          fe |-> Fresh(<<>>, "f"), masked |-> FALSE, mask |-> <<>>,
          wave |-> "", x_unit |-> UNone, y_unit |-> UNone]
Raised(err) == [NoRes EXCEPT !.out = err]
Spectrum(fx, fy, fe, masked, mask, wave, x_unit, y_unit) ==
  IF ~InitAsserts(fx.d, fy.d, fe.d, masked, mask) THEN Raised("AssertionError")
  ELSE [out |-> "ok", fx |-> fx, fy |-> fy, fe |-> fe,
        masked |-> masked, mask |-> mask,
        wave |-> wave, x_unit |-> x_unit, y_unit |-> y_unit]

\* a Spectrum that was returned but not (yet) bound to a variable
Temp(res) ==
  [live |-> TRUE, x |-> res.fx.d, y |-> res.fy.d, e |-> res.fe.d,
   xv |-> res.fx.v, yv |-> res.fy.v, ev |-> res.fe.v,
   xdt |-> res.fx.dt, ydt |-> res.fy.dt, edt |-> res.fe.dt,
   masked |-> res.masked, mask |-> res.mask,
   wave |-> res.wave, x_unit |-> res.x_unit, y_unit |-> res.y_unit]

(* ------------------------------ operands ------------------------------ *)
\* the right-hand operand of an operator: k is its Python type
NoArg == [k |-> "none", v |-> 0, a |-> <<>>, dt |-> "f", m |-> <<>>,
          str |-> "", ob |-> NoVal]
IntArg(v) == [NoArg EXCEPT !.k = "int", !.v = v]
FloatArg(v) == [NoArg EXCEPT !.k = "float", !.v = v]
ArrayArg(a, dt) == [NoArg EXCEPT !.k = "array", !.a = a, !.dt = dt]
SpecArg(ob) == [NoArg EXCEPT !.k = "spec", !.ob = ob]
StrArg(str) == [NoArg EXCEPT !.k = "str", !.str = str]
\* an array of booleans
MaskArg(m) == [NoArg EXCEPT !.k = "mask", !.m = m]

IsNumber(other) == other.k \in {"int", "float"}
IsNumeric(other) == other.k \in {"int", "float", "array"}

\* numpy broadcasting of an array against a scalar or an equal-length array
Bc(F(_, _), s, other) ==
  IF other.k = "array" THEN Map2(F, s, other.a) ELSE MapK(F, s, other.v)
BcAbs(other) ==
  IF other.k = "array" THEN [other EXCEPT !.a = Map1(FAbs, other.a)]
  ELSE [other EXCEPT !.v = FAbs(other.v)]

\* the dtype of array (op) other
ResDt(dt, other) ==
  IF other.k = "float" THEN "f"
  ELSE IF other.k = "int" THEN dt
  ELSE IF dt = "i" /\ other.dt = "i" THEN "i" ELSE "f"

\* the mask of a result computed from two (possibly masked) arrays
MaskOr(m1, k1, m2, k2) ==
  IF m1 /\ m2 THEN [i \in 1..Len(k1) |-> k1[i] \/ k2[i]]
  ELSE IF m1 THEN k1 ELSE k2

FHalf(a) == IF ~IsFin(a) THEN a ELSE Sgn(a) * RDiv(Abs(a), 2)

\* np.isclose(a, b): |a - b| <= atol + rtol * |b| with rtol = 1e-5 (atol =
\* 1e-8 is below the resolution); equal infinities are close
isclose(a, b) ==
  IF IsNaN(a) \/ IsNaN(b) THEN FALSE
  ELSE IF IsInf(a) \/ IsInf(b) THEN a = b
  ELSE Abs(a - b) <= Abs(b) \div 100000

\* a comparison that accepts any two grids
allclose_any(x1, x2) == TRUE

allclose(x1, x2) == \A i \in 1..Len(x1) : isclose(x1[i], x2[i])

(* ------------------------- arithmetic operators ----------------------- *)
At(other, i) == IF other.k = "array" THEN other.a[i] ELSE other.v
Idx(self) == 1..Len(self.x)

\* self + other
__add__(self, other) ==
  IF IsNumeric(other)
  THEN IF other.k = "array" /\ Len(self.x) # Len(other.a)
       THEN Raised("AssertionError")
       ELSE Spectrum(Fresh(self.x, self.xdt),
                     Fresh(Bc(FAdd, self.y, other), ResDt(self.ydt, other)),
                     Fresh(self.e, self.edt),
                     self.masked, self.mask,
                     self.wave, self.x_unit, self.y_unit)
  ELSE IF other.k = "spec"
  THEN LET o == other.ob
       IN IF Len(self.x) # Len(o.x) THEN Raised("AssertionError")
          ELSE IF ~allclose(self.x, o.x) THEN Raised("AssertionError")
          ELSE IF self.x_unit # o.x_unit THEN Raised("AssertionError")
          ELSE IF self.y_unit # o.y_unit THEN Raised("AssertionError")
          ELSE Spectrum(Fresh(Map1(FHalf, Map2(FAdd, self.x, o.x)), "f"),
                        Fresh(Map2(FAdd, self.y, o.y),
                              IF self.ydt = "i" /\ o.ydt = "i" THEN "i" ELSE "f"),
                        Fresh(Map2(FHypot, self.e, o.e), "f"),
                        self.masked \/ o.masked,
                        MaskOr(self.masked, self.mask, o.masked, o.mask),
                        self.wave, self.x_unit, self.y_unit)
  ELSE Raised("TypeError")

\* self - other
__sub__(self, other) ==
  IF IsNumeric(other)
  THEN IF other.k = "array" /\ Len(self.x) # Len(other.a)
       THEN Raised("AssertionError")
       ELSE Spectrum(Fresh(self.x, self.xdt),
                     Fresh(Bc(FSub, self.y, other), ResDt(self.ydt, other)),
                     Fresh(self.e, self.edt),
                     self.masked, self.mask,
                     self.wave, self.x_unit, self.y_unit)
  ELSE IF other.k = "spec"
  THEN LET o == other.ob
       IN IF Len(self.x) # Len(o.x) THEN Raised("AssertionError")
          ELSE IF ~allclose(self.x, o.x) THEN Raised("AssertionError")
          ELSE IF self.x_unit # o.x_unit THEN Raised("AssertionError")
          ELSE IF self.y_unit # o.y_unit THEN Raised("AssertionError")
          ELSE Spectrum(Fresh(Map1(FHalf, Map2(FAdd, self.x, o.x)), "f"),
                        Fresh(Map2(FSub, self.y, o.y),
                              IF self.ydt = "i" /\ o.ydt = "i" THEN "i" ELSE "f"),
                        Fresh(Map2(FHypot, self.e, o.e), "f"),
                        self.masked \/ o.masked,
                        MaskOr(self.masked, self.mask, o.masked, o.mask),
                        self.wave, self.x_unit, self.y_unit)
  ELSE Raised("TypeError")

\* np.abs(y2) * np.hypot(e1 / y1, e2 / y2o) at one pixel
RelErr(y2, e1, y1, e2, y2o) == FMul(FAbs(y2), FHypot(FDiv(e1, y1), FDiv(e2, y2o)))

\* self * other
__mul__(self, other) ==
  IF IsNumeric(other)
  THEN IF other.k = "array" /\ Len(self.x) # Len(other.a)
       THEN Raised("AssertionError")
       ELSE Spectrum(Fresh(self.x, self.xdt),
                     Fresh(Bc(FMul, self.y, other), ResDt(self.ydt, other)),
                     Fresh(Bc(FMul, self.e, BcAbs(other)), ResDt(self.edt, other)),
                     self.masked, self.mask,
                     self.wave, self.x_unit, self.y_unit)
  ELSE IF other.k = "spec"
  THEN LET o == other.ob
           y2 == Map2(FMul, self.y, o.y)
       IN IF Len(self.x) # Len(o.x) THEN Raised("AssertionError")
          ELSE IF ~allclose(self.x, o.x) THEN Raised("AssertionError")
          ELSE IF self.x_unit # o.x_unit THEN Raised("AssertionError")
          ELSE Spectrum(Fresh(Map1(FHalf, Map2(FAdd, self.x, o.x)), "f"),
                        Fresh(y2, IF self.ydt = "i" /\ o.ydt = "i" THEN "i" ELSE "f"),
                        Fresh([i \in Idx(self) |->
                                 RelErr(y2[i], self.e[i], self.y[i], o.e[i], o.y[i])],
                              "f"),
                        self.masked \/ o.masked,
                        MaskOr(self.masked, self.mask, o.masked, o.mask),
                        self.wave, self.x_unit, UMul(self.y_unit, o.y_unit))
  ELSE Raised("TypeError")

\* self / other
__truediv__(self, other) ==
  IF IsNumeric(other)
  THEN IF other.k = "array" /\ Len(self.x) # Len(other.a)
       THEN Raised("AssertionError")
       ELSE Spectrum(Fresh(self.x, self.xdt),
                     Fresh(Bc(FDiv, self.y, other), "f"),
                     Fresh(Bc(FDiv, self.e, BcAbs(other)), "f"),
                     self.masked, self.mask,
                     self.wave, self.x_unit, self.y_unit)
  ELSE IF other.k = "spec"
  THEN LET o == other.ob
           y2 == Map2(FDiv, self.y, o.y)
       IN IF Len(self.x) # Len(o.x) THEN Raised("AssertionError")
          ELSE IF ~allclose(self.x, o.x) THEN Raised("AssertionError")
          ELSE IF self.x_unit # o.x_unit THEN Raised("AssertionError")
          ELSE Spectrum(Fresh(Map1(FHalf, Map2(FAdd, self.x, o.x)), "f"),
                        Fresh(y2, "f"),
                        Fresh([i \in Idx(self) |->
                                 RelErr(y2[i], self.e[i], self.y[i], o.e[i], o.y[i])],
                              "f"),
                        self.masked \/ o.masked,
                        MaskOr(self.masked, self.mask, o.masked, o.mask),
                        self.wave, self.x_unit, UDiv(self.y_unit, o.y_unit))
  ELSE Raised("TypeError")

\* self ** other; numpy refuses a negative integer power of an int array
__pow__(self, other) ==
  IF IsNumber(other)
  THEN IF self.ydt = "i" /\ other.k = "int" /\ other.v < 0 /\ Len(self.y) > 0
       THEN Raised("ValueError")
       ELSE LET y2 == MapK(FPow, self.y, other.v)
            IN Spectrum(Fresh(self.x, self.xdt),
                        Fresh(y2, ResDt(self.ydt, other)),
                        Fresh([i \in Idx(self) |->
                                 FDiv(FMul(FMul(other.v, y2[i]), self.e[i]),
                                      self.y[i])], "f"),
                        self.masked, self.mask,
                        self.wave, self.x_unit, self.y_unit)
  ELSE Raised("TypeError")

\* other + self
__radd__(self, other) == __add__(self, other)

\* other * self
__rmul__(self, other) == __mul__(self, other)

\* -self, evaluated as -1 * self
__neg__(self) == __rmul__(self, IntArg(0 - ONE))

\* other - self, evaluated as -(self - other)
__rsub__(self, other) ==
  LET t == __sub__(self, other)
  IN IF t.out # "ok" THEN t ELSE __neg__(Temp(t))

\* other / self
__rtruediv__(self, other) ==
  IF IsNumeric(other)
  THEN IF other.k = "array" /\ Len(self.x) # Len(other.a)
       THEN Raised("AssertionError")
       ELSE Spectrum(Fresh(self.x, self.xdt),
                     Fresh([i \in Idx(self) |-> FDiv(At(other, i), self.y[i])], "f"),
                     Fresh([i \in Idx(self) |->
                              FDiv(FMul(At(other, i), self.e[i]),
                                   FMul(self.y[i], self.y[i]))], "f"),
                     self.masked, self.mask,
                     self.wave, self.x_unit, UInv(self.y_unit))
  ELSE Raised("TypeError")

\* abs(self): the x and e arrays of self are handed on, not copied
__abs__(self) ==
  Spectrum(Shared(self.xv, self.x, self.xdt),
           Fresh(Map1(FAbs, self.y), self.ydt),
           Shared(self.ev, self.e, self.edt),
           self.masked, self.mask,
           self.wave, self.x_unit, self.y_unit)

\* self.copy(), evaluated as 1. * self
copy(self) == __rmul__(self, FloatArg(ONE))

(* --------------------------- in-place methods ------------------------- *)
\* how a method that works on self in place ends: the exception raised (or
\* "ok"), and the heap and the variables it leaves behind
Done(out, h, ss) == [out |-> out, h |-> h, ss |-> ss]

\* self.<fld> = <a new float array holding d>
SetArr(h, ss, r, fld, d) ==
  LET a == Alloc(h, Fresh(d, "f"))
  IN [h |-> a.h, ss |-> [ss EXCEPT ![r][fld] = a.v]]

\* self.apply_mask(mask): the three arrays become masked arrays over the
\* same memory; a mask of one element is resized to the data, any other
\* length but N is a MaskError at the first of the three statements; an
\* existing mask is kept
apply_mask(h, ss, r, mask) ==
  LET sp == ss[r]
      n  == sp.x.n
      m  == IF Len(mask.m) = 1 THEN [i \in 1..n |-> mask.m[1]] ELSE mask.m
  IN IF Len(mask.m) # 1 /\ Len(mask.m) # n THEN Done("MaskError", h, ss)
     ELSE Done("ok", h,
               [ss EXCEPT ![r].masked = TRUE,
                          ![r].mask = MaskOr(sp.masked, sp.mask, TRUE, m)])

\* self.norm_percentile(pc), self not masked.  numpy refuses to write the
\* float quotient into an int array; raise0 is whether this numpy raises
\* for the percentile of an empty array or returns nan
norm_percentile(h, ss, r, pc, raise0) ==
  LET self == Val(h, ss[r])
      norm == percentile(self.y, pc.v)
      h1   == Wr(h, self.yv, MapK(FDiv, self.y, norm))
      h2   == Wr(h1, self.ev, MapK(FDiv, Rd(h1, self.ev), norm))
  IN IF pc.v < 0 \/ pc.v > 100 THEN Done("ValueError", h, ss)
     ELSE IF Len(self.y) = 0 /\ raise0 THEN Done("IndexError", h, ss)
     ELSE IF self.ydt = "i" THEN Done("TypeError", h, ss)
     ELSE IF self.edt = "i" THEN Done("TypeError", h1, ss)
     ELSE Done("ok", h2, ss)

\* a conversion without the guard on the medium
air_to_vac_unguarded(h, ss, r) ==
  LET self == Val(h, ss[r])
      b    == SetArr(h, ss, r, "x", Map1(air_to_vac, self.x))
  IN IF self.x_unit # Unit("AA") THEN Done("AssertionError", h, ss)
     ELSE Done("ok", b.h, [b.ss EXCEPT ![r].wave = "vac"])

\* self.air_to_vac(), self not masked
Spectrum_air_to_vac(h, ss, r) ==
  LET self == Val(h, ss[r])
  IN IF self.x_unit # Unit("AA") THEN Done("AssertionError", h, ss)
     ELSE IF self.wave = "air"
     THEN LET b == SetArr(h, ss, r, "x", Map1(air_to_vac, self.x))
          IN Done("ok", b.h, [b.ss EXCEPT ![r].wave = "vac"])
     ELSE IF self.wave = "vac" THEN Done("ok", h, ss)
     ELSE Done("ValueError", h, ss)

\* self.vac_to_air(), self not masked
Spectrum_vac_to_air(h, ss, r) ==
  LET self == Val(h, ss[r])
  IN IF self.x_unit # Unit("AA") THEN Done("AssertionError", h, ss)
     ELSE IF self.wave = "vac"
     THEN LET b == SetArr(h, ss, r, "x", Map1(vac_to_air, self.x))
          IN Done("ok", b.h, [b.ss EXCEPT ![r].wave = "air"])
     ELSE IF self.wave = "air" THEN Done("ok", h, ss)
     ELSE Done("ValueError", h, ss)

\* self.x_unit_to(new_unit), self not masked
x_unit_to(h, ss, r, new_unit) ==
  LET self == Val(h, ss[r])
  IN IF new_unit.k # "str" THEN Done("AssertionError", h, ss)
     ELSE IF new_unit.str \notin Parseable THEN Done("ValueError", h, ss)
     ELSE LET u2 == Unit(new_unit.str)
              b  == SetArr(h, ss, r, "x",
                           [i \in Idx(self) |-> spectral(self.x[i], self.x_unit, u2)])
          IN IF self.x_unit # u2 /\ ~({self.x_unit, u2} \subseteq Spectral)
             THEN Done("UnitConversionError", h, ss)
             ELSE Done("ok", b.h, [b.ss EXCEPT ![r].x_unit = u2])

\* self.y_unit_to(new_unit), self not masked.  The class has no method
\* to_y_unit: looking it up is an AttributeError
y_unit_to(h, ss, r, new_unit) ==
  LET self == Val(h, ss[r])
  IN IF new_unit.k # "str" THEN Done("AssertionError", h, ss)
     ELSE IF new_unit.str = "mag" THEN Done("AttributeError", h, ss)
     ELSE IF new_unit.str \notin Parseable THEN Done("ValueError", h, ss)
     ELSE LET u2  == Unit(new_unit.str)
              xAA == [i \in Idx(self) |-> ToAA(self.x[i], self.x_unit)]
              by  == SetArr(h, ss, r, "y",
                            [i \in Idx(self) |->
                               spectral_density(self.y[i], xAA[i], self.y_unit, u2)])
              be  == SetArr(by.h, by.ss, r, "e",
                            [i \in Idx(self) |->
                               spectral_density(self.e[i], xAA[i], self.y_unit, u2)])
          IN IF self.y_unit # u2 /\ ~({self.y_unit, u2} \subseteq {Uflam, UJy})
             THEN Done("UnitConversionError", h, ss)
             ELSE Done("ok", be.h, [be.ss EXCEPT ![r].y_unit = u2])

\* unit strings astropy parses as a velocity
Velocity == {"m/s", "km/s"}

\* self.apply_redshift(v, v_unit), self not masked; beta is v/c.  For
\* beta = 1 the quotient (1+beta)/(1-beta) divides by zero: zdiv is whether
\* beta is a Python float (ZeroDivisionError) or a numpy float64 (inf),
\* which depends on the astropy version.  math.sqrt raises ValueError for a
\* negative argument.  In vacuum the array is scaled in place, which numpy
\* refuses for an int array.
apply_redshift(h, ss, r, beta, v_unit, zdiv) ==
  LET self   == Val(h, ss[r])
      ratio  == FDiv(FAdd(ONE, beta.v), FSub(ONE, beta.v))
      factor == FSqrt(ratio)
      b      == SetArr(h, ss, r, "x",
                       Map1(vac_to_air,
                            MapK(FMul, Map1(air_to_vac, self.x), factor)))
  IN IF v_unit.str \notin Velocity \cup Parseable THEN Done("ValueError", h, ss)
     ELSE IF v_unit.str \notin Velocity THEN Done("AssertionError", h, ss)
     ELSE IF self.wave \notin {"vac", "air"} THEN Done("AssertionError", h, ss)
     ELSE IF beta.v = ONE /\ zdiv THEN Done("ZeroDivisionError", h, ss)
     ELSE IF ratio < 0 THEN Done("ValueError", h, ss)
     ELSE IF self.wave = "air" THEN Done("ok", b.h, b.ss)
     ELSE IF self.xdt = "i" THEN Done("TypeError", h, ss)
     ELSE Done("ok", Wr(h, self.xv, MapK(FMul, self.x, factor)), ss)

(* ------------------------------ reddening ----------------------------- *)
\* The extinction curve is evaluated with four decimals: the operators of
\* this section take and return whole numbers of 1e-4.
Q4Mul(a, b) == Sgn(a) * Sgn(b) * RDiv(Abs(a) * Abs(b), 10000)
Q4Div(a, b) == Sgn(a) * Sgn(b) * RDiv(Abs(a) * 10000, Abs(b))
\* np.polyval(p[::-1], v): p holds the lowest power first
RECURSIVE polyval(_, _)
polyval(p, v) ==
  IF p = <<>> THEN 0
  ELSE Q4Mul(polyval(SubSeq(p, 2, Len(p)), v), v) + p[1]

\* A_curve(x, R) at one wavenumber x (a float, in 1/um) for R = 3.1, in
\* units of 1e-4; a NaN belongs to no range and keeps the zeros of a and b.
\* Av_IR, Av_opt and Av_UV give the pair (a, b) of their wavenumber range;
\* v ** 1.61 is taken with the exponent 1 + 1/2 + 1/16 + 1/32 + 1/64
A_curve(x) ==
  LET Q4Sqrt(a) == ISqrt(a * 10000)
      Pow161(v) ==
        LET s1 == Q4Sqrt(v)
            s2 == Q4Sqrt(s1)
            s3 == Q4Sqrt(s2)
            s4 == Q4Sqrt(s3)
            s5 == Q4Sqrt(s4)
            s6 == Q4Sqrt(s5)
        IN Q4Mul(Q4Mul(Q4Mul(Q4Mul(v, s1), s4), s5), s6)
      Av_IR(v) == <<Q4Mul(5740, Pow161(v)), Q4Mul(0 - 5270, Pow161(v))>>
      poly_a == <<10000, 1770, 0 - 5045, 0 - 243, 7209, 198, 0 - 7753, 3300>>
      poly_b == <<0, 14134, 22831, 10723, 0 - 53843, 0 - 6225, 53026, 0 - 20900>>
      Av_opt(v) == <<polyval(poly_a, v - 18200), polyval(poly_b, v - 18200)>>
      poly_Fa == <<0, 0, 0 - 447, 0 - 98>>
      poly_Fb == <<0, 0, 2130, 1207>>
      Av_UV(v) ==
        LET Fa == IF v < 59000 THEN 0 ELSE polyval(poly_Fa, v - 59000)
            Fb == IF v < 59000 THEN 0 ELSE polyval(poly_Fb, v - 59000)
        IN <<17520 - Q4Mul(3160, v)
               - Q4Div(1040, Q4Mul(v - 46700, v - 46700) + 3410) + Fa,
             0 - 30900 + Q4Mul(18250, v)
               + Q4Div(12060, Q4Mul(v - 46200, v - 46200) + 2630) + Fb>>
      v  == (x * 10000) \div ONE
      ab == IF IsNaN(x) THEN <<0, 0>>
            ELSE IF x < (3 * ONE) \div 10 THEN Av_IR(3000)
            ELSE IF x < (11 * ONE) \div 10 THEN Av_IR(v)
            ELSE IF x < (33 * ONE) \div 10 THEN Av_opt(v)
            ELSE IF x < 8 * ONE THEN Av_UV(v)
            ELSE Av_UV(80000)
  IN ab[1] + Q4Div(ab[2], 31000)

\* 10 ** (1 / 2^k) for k = 1..8, in units of 1e-4
Pow10Tab == <<31623, 17783, 13335, 11548, 10746, 10366, 10182, 10090>>
\* 10 ** (f / 1e4) in units of 1e-4, 0 <= f < 1e4, from the binary digits
\* of the fraction
RECURSIVE Pow10Frac(_, _)
Pow10Frac(f, k) ==
  IF k > Len(Pow10Tab) THEN 10000
  ELSE IF 2 * f >= 10000 THEN Q4Mul(Pow10Tab[k], Pow10Frac(2 * f - 10000, k + 1))
  ELSE Pow10Frac(2 * f, k + 1)

RECURSIVE Ten(_)
Ten(n) == IF n = 0 THEN 1 ELSE 10 * Ten(n - 1)

\* 10 ** (-0.4 * 3.1 * E_BV * A) as a float, for the float E_BV and A in
\* units of 1e-4
extinction(E_BV, A) ==
  LET q == 0 - Sgn(E_BV) * Sgn(A) * RDiv(RDiv(124 * Abs(A), 100) * Abs(E_BV), ONE)
      n == q \div 10000
      p == Pow10Frac(q % 10000, 1)
  IN IF n > 4 THEN PInf
     ELSE IF n < 0 - 4 THEN 0
     ELSE IF n >= 0 THEN Ovf(RDiv(p * ONE, 10000) * Ten(n))
     ELSE RDiv(p * ONE, 10000 * Ten(0 - n))

\* self.redden(E_BV) with the default Rv = 3.1, self not masked.  The
\* wavenumbers come from a copy of self; the factors are written into the
\* arrays of self, which numpy refuses for an int array
redden(h, ss, r, E_BV) ==
  LET self == Val(h, ss[r])
      c    == copy(self)
      S    == Temp(c)
      xvac == IF S.wave = "air"
              THEN Map1(air_to_vac, [i \in Idx(S) |-> spectral(S.x[i], S.x_unit, UAA)])
              ELSE [i \in Idx(S) |-> ToAA(S.x[i], S.x_unit)]
      ext  == [i \in Idx(S) |-> extinction(E_BV.v, A_curve(FromAA(xvac[i], UinvUm)))]
      h1   == Wr(h, self.yv, Map2(FMul, self.y, ext))
      h2   == Wr(h1, self.ev, Map2(FMul, Rd(h1, self.ev), ext))
  IN IF c.out # "ok" THEN Done(c.out, h, ss)
     ELSE IF S.x_unit \notin Spectral THEN Done("UnitConversionError", h, ss)
     ELSE IF self.ydt = "i" THEN Done("TypeError", h, ss)
     ELSE IF self.edt = "i" THEN Done("TypeError", h1, ss)
     ELSE Done("ok", h2, ss)

(* --------------------- indexing, joining, splitting ------------------- *)
\* the keys of self[key]: slice(start, stop) with 0 <= start, a step of 1
SliceArg(start, stop) == [NoArg EXCEPT !.k = "slice", !.a = <<start, stop>>]

\* a > b as numpy evaluates it: False when either side is NaN
FGt(a, b) == ~IsNaN(a) /\ ~IsNaN(b) /\ a > b

\* the (1-based) positions where the boolean array m is True, in order
nonzero(m) ==
  LET T == {i \in 1..Len(m) : m[i]}
  IN [k \in 1..Cardinality(T) |->
        CHOOSE i \in T : Cardinality({j \in T : j <= i}) = k]

\* np.argsort(x) as 1-based positions: ties keep their order, NaN sorts last
argsort(x) ==
  LET Precedes(i, j) == x[i] < x[j] \/ (x[i] = x[j] /\ i < j)
  IN [k \in 1..Len(x) |->
        CHOOSE i \in 1..Len(x) :
          Cardinality({j \in 1..Len(x) : Precedes(j, i)}) = k - 1]

\* self[key].  An int key returns the tuple (x[key], y[key], e[key]) and no
\* Spectrum (out = "tuple").  A slice gives views of the arrays of self; a
\* boolean or integer array gives new arrays.
__getitem__(self, key) ==
  LET n == Len(self.x)
      Take(s, idx) == [i \in 1..Len(idx) |-> s[idx[i]]]
      New(idx) ==
        Spectrum(Fresh(Take(self.x, idx), self.xdt),
                 Fresh(Take(self.y, idx), self.ydt),
                 Fresh(Take(self.e, idx), self.edt),
                 self.masked, IF self.masked THEN Take(self.mask, idx) ELSE <<>>,
                 self.wave, self.x_unit, self.y_unit)
      lo == IF key.a[1] > n THEN n ELSE key.a[1]
      hi == IF key.a[2] > n THEN n ELSE IF key.a[2] < lo THEN lo ELSE key.a[2]
      Sub(v) == [b |-> v.b, o |-> v.o + lo, n |-> hi - lo]
  IN IF key.k = "int"
     THEN IF key.v \div ONE >= n \/ key.v \div ONE < 0 - n
          THEN Raised("IndexError") ELSE Raised("tuple")
     ELSE IF key.k = "slice"
     THEN Spectrum(Shared(Sub(self.xv), SubSeq(self.x, lo + 1, hi), self.xdt),
                   Shared(Sub(self.yv), SubSeq(self.y, lo + 1, hi), self.ydt),
                   Shared(Sub(self.ev), SubSeq(self.e, lo + 1, hi), self.edt),
                   self.masked,
                   IF self.masked THEN SubSeq(self.mask, lo + 1, hi) ELSE <<>>,
                   self.wave, self.x_unit, self.y_unit)
     ELSE IF key.k = "mask"
     THEN IF Len(key.m) # n THEN Raised("IndexError") ELSE New(nonzero(key.m))
     ELSE IF key.k = "array"
     THEN IF key.dt # "i" \/ \E i \in 1..Len(key.a) : key.a[i] \notin 1..n
          THEN Raised("IndexError")
          ELSE New(key.a)
     ELSE Raised("TypeError")

\* self.sect(x0, x1): the truth array of x0 < x < x1
sect(self, x0, x1) == [i \in 1..Len(self.x) |-> FGt(self.x[i], x0) /\ FGt(x1, self.x[i])]

clip(self, x0, x1) == __getitem__(self, MaskArg(sect(self, x0, x1)))

\* self.split(W) for a plain (not masked) self: the tuple of pieces, or
\* the exception raised.  W is a float or an int, or an ndarray (whose
\* elements pass isinstance(w, float) only when its dtype is float64)
split(self, W) ==
  LET cuts == IF W.k = "array" THEN <<NInf>> \o Sorted(W.a) \o <<PInf>>
              ELSE <<NInf, W.v, PInf>>
      tup  == [i \in 1..(Len(cuts) - 1) |-> clip(self, cuts[i], cuts[i + 1])]
      bad  == {i \in 1..Len(tup) : tup[i].out # "ok"}
  IN IF ~IsNumeric(W) THEN [out |-> "TypeError", pieces |-> <<>>]
     ELSE IF W.k = "array" /\ W.dt # "f" /\ Len(W.a) > 0
     THEN [out |-> "TypeError", pieces |-> <<>>]
     ELSE IF bad # {} THEN [out |-> tup[MinOf(bad)].out, pieces |-> <<>>]
     ELSE [out |-> "ok", pieces |-> tup]

\* join_spectra(SS, sort) for plain (not masked) spectra.  np.hstack is
\* handed a generator, which numpy accepts with a warning or refuses with
\* a TypeError depending on its version (generator_ok)
join_spectra(SS, sort, generator_ok) ==
  LET Cat(F(_)) == [i \in 1..(Len(F(SS[1])) + Len(F(SS[2]))) |->
                      IF i <= Len(F(SS[1])) THEN F(SS[1])[i]
                      ELSE F(SS[2])[i - Len(F(SS[1]))]]
      X(S) == S.x
      Y(S) == S.y
      E(S) == S.e
      Dt(a, b) == IF a = "i" /\ b = "i" THEN "i" ELSE "f"
      S == Spectrum(Fresh(Cat(X), Dt(SS[1].xdt, SS[2].xdt)),
                    Fresh(Cat(Y), Dt(SS[1].ydt, SS[2].ydt)),
                    Fresh(Cat(E), Dt(SS[1].edt, SS[2].edt)),
                    FALSE, <<>>, SS[1].wave, SS[1].x_unit, SS[1].y_unit)
  IN IF \E i \in 1..Len(SS) :
          \/ SS[i].wave # SS[1].wave
          \/ SS[i].x_unit # SS[1].x_unit
          \/ SS[i].y_unit # SS[1].y_unit
     THEN Raised("AssertionError")
     ELSE IF ~generator_ok THEN Raised("TypeError")
     ELSE IF S.out # "ok" THEN S
     ELSE IF sort THEN __getitem__(Temp(S), ArrayArg(argsort(Cat(X)), "i"))
     ELSE S

\* self.join(other, sort)
join(self, other, sort, generator_ok) ==
  IF other.k # "spec" THEN Raised("AssertionError")
  ELSE join_spectra(<<self, other.ob>>, sort, generator_ok)

(* ------------------------ resampling and scaling ---------------------- *)
\* interp1d(x, y, kind='linear', bounds_error=False, fill_value=0.)(x_new)
\* for finite values: the knots are sorted first; a point below the first
\* or above the last knot gets the fill value; a point inside is on the
\* chord of the two knots around it (one rounding).  scipy refuses an empty
\* x, and a single knot too unless it is a release that asks for one entry
\* only (lenient); its chord then runs from the knot to itself, 0/0, as
\* does the chord of two equal knots.
\* the value interp1d fills with when it is given none, and fill_value=0.
\* as interp_wave passes it
fill_value_default == NaN
fill_value == 0
interp1d(x, y, x_new, lenient) ==
  LET n    == Len(x)
      idx  == argsort(x)
      xs   == [i \in 1..n |-> x[idx[i]]]
      ys   == [i \in 1..n |-> y[idx[i]]]
      At1(v) ==
        LET below == Cardinality({j \in 1..n : xs[j] < v})
            lo == IF below < 1 THEN 1 ELSE IF below > n - 1 THEN n - 1 ELSE below
            dx == xs[lo + 1] - xs[lo]
            dy == ys[lo + 1] - ys[lo]
        IN IF IsNaN(v) THEN NaN
           ELSE IF v < xs[1] \/ v > xs[n] THEN fill_value
           ELSE IF n = 1 THEN NaN
           ELSE IF dx = 0 THEN NaN
           ELSE ys[lo] + Sgn(dy) * RDiv(Abs(dy) * (v - xs[lo]), dx)
  IN IF n = 0 \/ (n = 1 /\ ~lenient) THEN [out |-> "ValueError", y |-> <<>>]
     ELSE [out |-> "ok", y |-> [i \in 1..Len(x_new) |-> At1(x_new[i])]]

\* self.interp_wave(X, kind) for a plain (not masked) self and the kinds
\* that go to interp1d: 'linear', or a name interp1d does not know.  The
\* branch reads self.y[0] first, which an empty self does not have.
interp_wave(self, X, kind, lenient) ==
  LET x2 == IF X.k = "spec" THEN X.ob.x ELSE X.a
      dt == IF X.k = "spec" THEN X.ob.xdt ELSE X.dt
      y2 == interp1d(self.x, self.y, x2, lenient)
      e2 == interp1d(self.x, self.e, x2, lenient)
  IN IF X.k \notin {"array", "spec"} THEN Raised("TypeError")
     ELSE IF X.k = "spec" /\ self.wave # X.ob.wave THEN Raised("AssertionError")
     ELSE IF Len(self.y) = 0 THEN Raised("IndexError")
     ELSE IF kind # "linear" THEN Raised("NotImplementedError")
     ELSE IF y2.out # "ok" THEN Raised(y2.out)
     ELSE Spectrum(Fresh(x2, dt), Fresh(y2.y, "f"), Fresh(e2.y, "f"), FALSE, <<>>,
                   self.wave, self.x_unit, self.y_unit)

\* weights 1.0/self.e in place of the inverse variance
inverse_error(self) == [i \in 1..Len(self.e) |-> FDiv(ONE, self.e[i])]

\* the property ivar: 1.0/self.e**2
ivar(self) == [i \in 1..Len(self.e) |-> FDiv(ONE, FMul(self.e[i], self.e[i]))]

\* np.sum of a float array
RECURSIVE sum(_)
sum(a) == IF a = <<>> THEN 0 ELSE FAdd(sum(SubSeq(a, 1, Len(a) - 1)), a[Len(a)])

\* self.scale_model(other, return_scaling_factor): the scaled model (or
\* the exception raised) and, when asked for, the factor A
scale_model(self, other, return_scaling_factor, lenient) ==
  LET o    == other.ob
      sel  == __getitem__(o, MaskArg([i \in 1..Len(o.e) |-> FGt(o.e[i], 0)]))
      S    == Temp(sel)
      res  == interp_wave(self, SpecArg(S), "linear", lenient)
      M    == Temp(res)
      w    == ivar(S)
      A_sm == sum([i \in 1..Len(S.y) |-> FMul(FMul(S.y[i], M.y[i]), w[i])])
      A_mm == sum([i \in 1..Len(S.y) |-> FMul(FMul(M.y[i], M.y[i]), w[i])])
      A    == FDiv(A_sm, A_mm)
      Fail(err) == [out |-> err, ret |-> NoVal, A |-> NaN, pair |-> FALSE]
      prod == __mul__(self, FloatArg(A))
  IN IF other.k # "spec" THEN Fail("AssertionError")
     ELSE IF self.x_unit # o.x_unit \/ self.y_unit # o.y_unit
     THEN Fail("AssertionError")
     ELSE IF sel.out # "ok" THEN Fail(sel.out)
     ELSE IF res.out # "ok" THEN Fail(res.out)
     ELSE IF prod.out # "ok" THEN Fail(prod.out)
     ELSE [out |-> "ok", ret |-> Temp(prod), A |-> A,
           pair |-> return_scaling_factor]

(* --------------------------- filter curves ---------------------------- *)
\* A filter name is modelled as the sequence of its characters.
\* filt in s for two str: filt is a substring of s
InStr(filt, s) ==
  \E i \in 0..(Len(s) - Len(filt)) : SubSeq(s, i + 1, i + Len(filt)) = filt
\* the list [prefix + b for b in bands]
WithBands(prefix, bands) == {prefix \o b : b \in bands}
Each(s) == {<<s[i]>> : i \in 1..Len(s)}

\* load_transmission_curve(filt): the file it opens (family and band of
\* "<family>.<band>.dat") and how it ends.  readable: np.loadtxt finds and
\* parses the file; otherwise it raises OSError
load_transmission_curve(filt, readable) ==
  LET Last == <<filt[Len(filt)]>>
      Open(family, band) ==
        [out |-> IF readable THEN "ok" ELSE "OSError",
         opened |-> <<family, band>>]
  IN IF InStr(filt, <<"u", "g", "r", "i", "z">>) THEN Open("SLOAN_SDSS", filt)
     ELSE IF InStr(filt, <<"U", "B", "V", "R", "I">>) THEN Open("Generic_Johnson", filt)
     ELSE IF filt \in WithBands(<<"G", "a", "i", "a">>, {<<"G">>, <<"B", "p">>, <<"R", "p">>})
     THEN Open("GAIA_GAIA2r",
               <<"G">> \o (IF filt = <<"G", "a", "i", "a", "G">> THEN <<>>
                           ELSE IF filt = <<"G", "a", "i", "a", "B", "p">> THEN <<"b", "p">> ELSE <<"r", "p">>))
     ELSE IF filt \in {<<"G", "a", "l", "e", "x", "F", "U", "V">>, <<"G", "a", "l", "e", "x", "N", "U", "V">>}
     THEN Open("GALEX_GALEX", SubSeq(filt, 6, 8))
     ELSE IF filt = <<"D", "e", "n", "i", "s", "I">> THEN Open("DENIS_DENIS", <<"I">>)
     ELSE IF filt \in WithBands(<<"2", "m">>, Each(<<"J", "H", "K">>)) THEN Open("2MASS_2MASS", Last)
     ELSE IF filt \in WithBands(<<"U", "K">>, Each(<<"Y", "J", "H", "K">>)) THEN Open("UKIRT_UKIDSS", Last)
     ELSE IF filt \in WithBands(<<"W">>, Each(<<"1", "2">>)) THEN Open("WISE_WISE", filt)
     ELSE IF filt \in WithBands(<<"S">>, Each(<<"1", "2">>))
     THEN Open("Spitzer_IRAC", <<"I", filt[2]>>)
     ELSE IF filt \in WithBands(<<"s", "m">>, Each(<<"u", "v", "g", "r", "i", "z">>))
     THEN Open("SkyMapper_SkyMapper", <<filt[3]>>)
     ELSE IF filt \in WithBands(<<"p", "s">>, Each(<<"g", "r", "i", "z", "y">>))
     THEN Open("PAN-STARRS_PS1", <<filt[3]>>)
     ELSE [out |-> "ValueError", opened |-> <<>>]

\* mag_calc_AB(S, filt): the filter is loaded first; then S.x_unit_to("Hz")
\* and S.y_unit_to("Jy") rebind the arrays of the caller's S (modified)
\* unless the unit of S.x is not a spectral one.  The magnitude returned is
\* not computed here: out = "ok" stands for the return of a value.
mag_calc_AB(S, filt, readable) ==
  LET R == load_transmission_curve(filt, readable)
  IN IF R.out # "ok"
     THEN [out |-> R.out, opened |-> R.opened, modified |-> FALSE]
     ELSE IF S.x_unit \notin Spectral
     THEN [out |-> "UnitConversionError", opened |-> R.opened, modified |-> FALSE]
     ELSE [out |-> "ok", opened |-> R.opened, modified |-> TRUE]

(* -------------------------------- state ------------------------------- *)
VARIABLES
  heap,   \* the numpy buffers: BufIds -> [d: values, dt: dtype]
  specs,  \* the caller's Spectrum variables: Slots -> Spectrum or NoSpec
  last,   \* the last call: its name, operands, outcome and the state before
  nops,   \* number of calls made
  frame   \* the module-level function being run: its arguments, locals, result

vars == <<heap, specs, last, nops, frame>>

FreeSlots == {k \in Slots : ~specs[k].live}
LiveSlots == {k \in Slots : specs[k].live}
\* the variables a further call can be made on
Receivers == IF nops < MaxOps THEN LiveSlots ELSE {}
\* where the caller keeps a returned Spectrum: in an unused variable when
\* there is one, else in place of the receiver
Dst(r) == IF FreeSlots # {} THEN MinOf(FreeSlots) ELSE r
Self(r) == Val(heap, specs[r])

\* no module-level function is being run
NoFrame == [fn |-> "", pc |-> "idle"]

NoLast == [op |-> "", out |-> "", r |-> 0, o |-> 0, d |-> 0, arg |-> NoArg,
           prev |-> [k \in Slots |-> NoVal]]

\* one call: op on receiver r (and operand slot o) ended with out, leaving
\* heap h2 and variables ss2; a returned Spectrum is in variable d
Step(op, out, r, o, d, arg, h2, ss2) ==
  /\ nops < MaxOps
  /\ nops' = nops + 1
  /\ heap' = GC(h2, ss2)
  /\ specs' = ss2
  /\ last' = [op |-> op, out |-> out, r |-> r, o |-> o, d |-> d,
              arg |-> [arg EXCEPT !.ob = NoVal],
              prev |-> [k \in Slots |-> Val(heap, specs[k])]]
  /\ UNCHANGED frame

Bind(h, ss, d, res) ==
  LET ax == Alloc(h, res.fx)
      ay == Alloc(ax.h, res.fy)
      ae == Alloc(ay.h, res.fe)
  IN [h |-> ae.h,
      ss |-> [ss EXCEPT ![d] =
                [live |-> TRUE, x |-> ax.v, y |-> ay.v, e |-> ae.v,
                 masked |-> res.masked, mask |-> res.mask, wave |-> res.wave,
                 x_unit |-> res.x_unit, y_unit |-> res.y_unit]]]

\* a call that returns the Spectrum res or raises res.out
Returns(op, r, o, arg, res) ==
  IF res.out = "ok"
  THEN \E b \in {Bind(heap, specs, Dst(r), res)} :
         Step(op, "ok", r, o, Dst(r), arg, b.h, b.ss)
  ELSE Step(op, res.out, r, o, 0, arg, heap, specs)

Init ==
  /\ heap = [b \in BufIds |-> FreeBuf]
  /\ specs = [k \in Slots |-> NoSpec]
  /\ last = NoLast
  /\ nops = 0
  /\ frame = NoFrame

(* ------------------------ what callers pass in ------------------------ *)
\* the constructor calls the model makes: a grid, one within rtol of it and
\* one not within rtol of it at the last pixel; positive, negative and
\* partly zero flux; positive, zero and partly negative errors; float and
\* int arrays; each medium and unit string
Samples ==
  LET n == MaxLen
      W(k) == k * ONE
      Grid(k) == [i \in 1..k |-> W(2000 + 2000 * i)]
      GridNear(k) == [i \in 1..k |-> W(2000 + 2000 * i) + 2 * i]
      GridFar(k) == [i \in 1..k |-> W(2000 + 2000 * i) + (IF i = k THEN W(100) ELSE 0)]
      FluxPos(k) == [i \in 1..k |-> i * ONE]
      FluxNeg(k) == [i \in 1..k |-> 0 - 2 * i * ONE]
      FluxZero(k) == [i \in 1..k |-> (i - 1) * ONE]
      ErrPos(k) == [i \in 1..k |-> i * (ONE \div 2)]
      ErrZero(k) == [i \in 1..k |-> 0]
      ErrNeg(k) == [i \in 1..k |-> IF i = 1 THEN 0 - ONE ELSE ONE]
      Call(x, y, e, dts, wave, x_unit, y_unit) ==
        [x |-> x, y |-> y, e |-> e, xdt |-> dts[1], ydt |-> dts[2], edt |-> dts[3],
         wave |-> wave, x_unit |-> x_unit, y_unit |-> y_unit]
      FFF == <<"f", "f", "f">>
      Std(x, y, e) == Call(x, y, e, FFF, "air", "AA", "erg/(s cm^2 AA)")
  IN {Call(Grid(n), y, e, FFF, w, "AA", "erg/(s cm2 AA)") :
        y \in {FluxPos(n), FluxNeg(n), FluxZero(n)},
        e \in {ErrPos(n), ErrZero(n)}, w \in {"air", "vac"}}
     \cup {Std(Grid(k), FluxPos(k), ErrPos(k)) : k \in 0..n}
     \cup {Std(GridNear(n), FluxPos(n), ErrPos(n)),
           Std(GridFar(n), FluxPos(n), ErrPos(n)),
           Std(Grid(n), FluxPos(n), ErrNeg(n)),
           Std(Grid(n), FluxPos(n - 1), ErrPos(n))}
     \cup {Call(Grid(n), FluxPos(n), ErrPos(n), FFF, "water", "AA", "Jy")}
     \cup {Call(Grid(n), FluxPos(n), ErrPos(n), FFF, "air", xu, "erg/(s cm2 AA)") :
             xu \in {"nm", "bogus"}}
     \cup {Call(Grid(n), FluxPos(n), ErrPos(n), FFF, "vac", "Angstrom", yu) :
             yu \in {"Jy", "", "bogus"}}
     \cup {Call(Grid(n), FluxPos(n), ErrZero(n), dts, "vac", "AA", "erg/(s cm2 AA)") :
             dts \in {<<"f", "f", "i">>, <<"i", "i", "i">>}}

(* ------------------------------- actions ------------------------------ *)
\* Spectrum(x, y, e, name, wave, x_unit, y_unit) called with new arrays
Construct ==
  /\ nops < MaxOps
  /\ FreeSlots # {}
  /\ \E c \in Samples :
       \E res \in {IF ~InitAsserts(c.x, c.y, c.e, FALSE, <<>>)
                   THEN Raised("AssertionError")
                   ELSE IF c.x_unit \notin Parseable \/ c.y_unit \notin Parseable
                   THEN Raised("ValueError")
                   ELSE Spectrum(Fresh(c.x, c.xdt), Fresh(c.y, c.ydt),
                                 Fresh(c.e, c.edt), FALSE, <<>>, c.wave,
                                 Unit(c.x_unit), Unit(c.y_unit))} :
         Returns("__init__", 0, 0, NoArg, res)

\* scalars and arrays used as right-hand operands
Numbers == {IntArg(2 * ONE), FloatArg(0 - (ONE \div 2))}
Arrays(n) == {ArrayArg([i \in 1..n |-> IF i = 1 THEN 0 - ONE ELSE 2 * ONE], "i"),
              ArrayArg([i \in 1..(n + 1) |-> ONE], "f")}
\* [o: the variable holding the operand when it is a Spectrum, a: the operand]
Operand(o, a) == [o |-> o, a |-> a]
NonSpectra(r) ==
  {Operand(0, a) : a \in Numbers \cup Arrays(Len(Self(r).x)) \cup {StrArg("a")}}
Others(r) ==
  NonSpectra(r) \cup {Operand(o, SpecArg(Self(o))) : o \in LiveSlots}

Add == \E r \in Receivers : \E self \in {Self(r)} : \E z \in Others(r) :
  \E res \in {__add__(self, z.a)} : Returns("__add__", r, z.o, z.a, res)
Sub == \E r \in Receivers : \E self \in {Self(r)} : \E z \in Others(r) :
  \E res \in {__sub__(self, z.a)} : Returns("__sub__", r, z.o, z.a, res)
Mul == \E r \in Receivers : \E self \in {Self(r)} : \E z \in Others(r) :
  \E res \in {__mul__(self, z.a)} : Returns("__mul__", r, z.o, z.a, res)
TrueDiv == \E r \in Receivers : \E self \in {Self(r)} : \E z \in Others(r) :
  \E res \in {__truediv__(self, z.a)} : Returns("__truediv__", r, z.o, z.a, res)

\* exponents: 2, -1, 2.0 ... and one half
Exponents == {IntArg(2 * ONE), IntArg(0 - ONE), FloatArg(ONE \div 2), IntArg(0)}
Pow == \E r \in Receivers : \E self \in {Self(r)} :
  \E p \in Exponents \cup {ArrayArg(<<ONE>>, "f")} :
    \E res \in {__pow__(self, p)} : Returns("__pow__", r, 0, p, res)

RAdd == \E r \in Receivers : \E self \in {Self(r)} : \E z \in NonSpectra(r) :
  \E res \in {__radd__(self, z.a)} : Returns("__radd__", r, 0, z.a, res)
RSub == \E r \in Receivers : \E self \in {Self(r)} : \E z \in NonSpectra(r) :
  \E res \in {__rsub__(self, z.a)} : Returns("__rsub__", r, 0, z.a, res)
RMul == \E r \in Receivers : \E self \in {Self(r)} : \E z \in NonSpectra(r) :
  \E res \in {__rmul__(self, z.a)} : Returns("__rmul__", r, 0, z.a, res)
RTrueDiv == \E r \in Receivers : \E self \in {Self(r)} : \E z \in NonSpectra(r) :
  \E res \in {__rtruediv__(self, z.a)} : Returns("__rtruediv__", r, 0, z.a, res)

Neg == \E r \in Receivers : \E res \in {__neg__(Self(r))} :
  Returns("__neg__", r, 0, NoArg, res)
Abs_ == \E r \in Receivers : \E res \in {__abs__(Self(r))} :
  Returns("__abs__", r, 0, NoArg, res)
\* +self returns self: no new object
Pos == \E r \in Receivers : Step("__pos__", "ok", r, 0, r, NoArg, heap, specs)

\* a call of a method that works on the receiver in place
Mutates(op, r, arg, res) == Step(op, res.out, r, 0, r, arg, res.h, res.ss)

\* receivers whose arrays are plain (not masked) arrays
Unmasked == {r \in Receivers : ~specs[r].masked}

\* masks: the first pixel masked, a mask that is too long, a single True
Masks(n) == {MaskArg([i \in 1..n |-> i = 1]), MaskArg([i \in 1..(n + 2) |-> FALSE]),
             MaskArg(<<TRUE>>)}
ApplyMask == \E r \in Receivers : \E mask \in Masks(specs[r].x.n) :
  \E res \in {apply_mask(heap, specs, r, mask)} : Mutates("apply_mask", r, mask, res)

\* percentiles (whole numbers of percent)
Percents == {[NoArg EXCEPT !.k = "int", !.v = pc] : pc \in {0, 50, 150}}
NormPercentile == \E r \in Unmasked : \E pc \in Percents : \E raise0 \in BOOLEAN :
  \E res \in {norm_percentile(heap, specs, r, pc, raise0)} :
    Mutates("norm_percentile", r, pc, res)

AirToVac == \E r \in Unmasked : \E res \in {Spectrum_air_to_vac(heap, specs, r)} :
  Mutates("air_to_vac", r, NoArg, res)
VacToAir == \E r \in Unmasked : \E res \in {Spectrum_vac_to_air(heap, specs, r)} :
  Mutates("vac_to_air", r, NoArg, res)

XUnitTo == \E r \in Unmasked :
  \E new_unit \in {StrArg(str) : str \in {"AA", "nm", "1/um", "Jy", "bogus"}}
                 \cup {IntArg(ONE)} :
    \E res \in {x_unit_to(heap, specs, r, new_unit)} :
      Mutates("x_unit_to", r, new_unit, res)
YUnitTo == \E r \in Unmasked :
  \E new_unit \in {StrArg(str) : str \in {"Jy", "erg/(s cm2 AA)", "mag", "AA", "bogus"}}
                 \cup {IntArg(ONE)} :
    \E res \in {y_unit_to(heap, specs, r, new_unit)} :
      Mutates("y_unit_to", r, new_unit, res)

\* colour excesses E(B-V): 0.1 and -0.1
Redden == \E r \in Unmasked : \E E_BV \in {FloatArg(ONE \div 10), FloatArg(0 - ONE \div 10)} :
  \E res \in {redden(heap, specs, r, E_BV)} : Mutates("redden", r, E_BV, res)

\* velocities as fractions of c: -2, -1, -0.6, 0.6, 1, 2
Betas == {FloatArg(b) : b \in {0 - 2 * ONE, 0 - ONE, 0 - (3 * ONE) \div 5,
                               (3 * ONE) \div 5, ONE, 2 * ONE}}
ApplyRedshift == \E r \in Unmasked : \E beta \in Betas :
  \E v_unit \in {StrArg(str) : str \in {"m/s", "AA", "bogus"}} : \E zdiv \in BOOLEAN :
    \E res \in {apply_redshift(heap, specs, r, beta, v_unit, zdiv)} :
      Mutates("apply_redshift", r, [beta EXCEPT !.str = v_unit.str], res)

\* keys: the slices [0:1] and [0:n], a boolean array selecting the first
\* pixel, the int 0, a str
Keys(n) == {SliceArg(0, 1), SliceArg(0, n), MaskArg([i \in 1..n |-> i = 1]),
            IntArg(0), StrArg("a")}
GetItem == \E r \in Receivers : \E key \in Keys(specs[r].x.n) :
  \E res \in {__getitem__(Self(r), key)} : Returns("__getitem__", r, 0, key, res)

Next ==
  \/ Construct
  \/ Add
  \/ Sub
  \/ Mul
  \/ TrueDiv
  \/ Pow
  \/ RAdd
  \/ RSub
  \/ RMul
  \/ RTrueDiv
  \/ Neg
  \/ Abs_
  \/ Pos
  \/ ApplyMask
  \/ NormPercentile
  \/ Redden
  \/ AirToVac
  \/ VacToAir
  \/ XUnitTo
  \/ YUnitTo
  \/ ApplyRedshift
  \/ GetItem

Spec == Init /\ [][Next]_vars

(* ------------------- calls on spectra held by value ------------------- *)
\* The calls below return new objects and leave their operands alone; the
\* model runs them on Spectrum values kept in frame, outside the heap.
\* a call starts from the caller's code, not from inside another call
Idle == frame.pc = "idle"
\* such a call leaves the spectra on the heap alone
Held == UNCHANGED <<heap, specs, last, nops>>

\* a Spectrum as a caller builds it from three float arrays
Make(x, y, e, wave, x_unit, y_unit) ==
  Temp(Spectrum(Fresh(x, "f"), Fresh(y, "f"), Fresh(e, "f"), FALSE, <<>>,
                wave, Unit(x_unit), Unit(y_unit)))

\* spectra in the medium wave: two pixels from 4000 A, from 4500 A, from
\* 6000 A; one pixel; no pixel; another flux unit
Parts(wave) ==
  LET G(a, n) == [i \in 1..n |-> (a + 1000 * (i - 1)) * ONE]
      Y(a, n) == [i \in 1..n |-> (a \div 1000 + i) * ONE]
      E(n) == [i \in 1..n |-> (i - 1) * (ONE \div 2)]
      P(a, n, y_unit) == Make(G(a, n), Y(a, n), E(n), wave, "AA", y_unit)
  IN {P(a, 2, "erg/(s cm2 AA)") : a \in {4000, 4500, 6000}}
     \cup {P(a, 1, "erg/(s cm2 AA)") : a \in {5000, 6000}}
     \cup {P(4000, 0, "erg/(s cm2 AA)"), P(6000, 2, "Jy")}

\* A.join(B, sort)
Join ==
  /\ Idle /\ Held
  /\ \E A \in Parts("air") :
     \E B \in {SpecArg(P) : P \in Parts("air") \cup {Make(<<>>, <<>>, <<>>, "vac", "AA", "Jy")}}
             \cup {FloatArg(ONE)} :
       \E sort \in BOOLEAN : \E generator_ok \in BOOLEAN :
         \E res \in {join(A, B, sort, generator_ok)} :
           frame' = [fn |-> "join", pc |-> "done", self |-> A, other |-> B,
                     sort |-> sort, out |-> res.out,
                     ret |-> IF res.out = "ok" THEN Temp(res) ELSE NoVal]

\* where S is split: at each of its pixels and 500 A above it, at an int,
\* at several places (float64 and int64 arrays), at a string
Cuts(S) ==
  {FloatArg(S.x[i] + d) : i \in 1..Len(S.x), d \in {0, 500 * ONE}}
  \cup {IntArg(5500 * ONE), ArrayArg(<<6500 * ONE, 4500 * ONE>>, "f"),
        ArrayArg(<<5500 * ONE>>, "i"), StrArg("5500")}

\* S.split(W) on the Spectrum S that a join returned
SplitJoined ==
  /\ frame.fn = "join" /\ frame.pc = "done" /\ frame.out = "ok"
  /\ Held
  /\ \E W \in Cuts(frame.ret) : \E res \in {split(frame.ret, W)} :
       frame' = [fn |-> "split", pc |-> "done", self |-> frame.ret, W |-> W,
                 out |-> res.out,
                 pieces |-> [i \in 1..Len(res.pieces) |-> Temp(res.pieces[i])],
                 A |-> frame.self, B |-> frame.other.ob, sort |-> frame.sort]

\* filter names asked for: those load_transmission_curve has a file for,
\* and strings that name no filter
Catalogue ==
  Each(<<"u", "g", "r", "i", "z">>) \cup Each(<<"U", "B", "V", "R", "I">>) \cup WithBands(<<"G", "a", "i", "a">>, {<<"G">>, <<"B", "p">>, <<"R", "p">>})
  \cup {<<"G", "a", "l", "e", "x", "F", "U", "V">>, <<"G", "a", "l", "e", "x", "N", "U", "V">>, <<"D", "e", "n", "i", "s", "I">>}
  \cup WithBands(<<"2", "m">>, Each(<<"J", "H", "K">>)) \cup WithBands(<<"U", "K">>, Each(<<"Y", "J", "H", "K">>))
  \cup WithBands(<<"W">>, Each(<<"1", "2">>)) \cup WithBands(<<"S">>, Each(<<"1", "2">>))
  \cup WithBands(<<"s", "m">>, Each(<<"u", "v", "g", "r", "i", "z">>)) \cup WithBands(<<"p", "s">>, Each(<<"g", "r", "i", "z", "y">>))
Strangers == {<<>>, <<"u", "g">>, <<"u", "g", "r", "i", "z">>, <<"B", "V">>, <<"X">>, <<"G", "a", "i", "a">>, <<"g", "a", "i", "a", "G">>, <<"W", "3">>, <<"S", "L", "O", "A", "N">>}

\* whether np.loadtxt can read the file asked for: a file of a name that
\* is not in the catalogue is never there
Readable(filt) == IF filt \in Catalogue THEN BOOLEAN ELSE {FALSE}

LoadTransmissionCurve ==
  /\ Idle /\ Held
  /\ \E filt \in Catalogue \cup Strangers : \E readable \in Readable(filt) :
       \E res \in {load_transmission_curve(filt, readable)} :
         frame' = [fn |-> "load_transmission_curve", pc |-> "done", filt |-> filt,
                   out |-> res.out, opened |-> res.opened]

MagCalcAB ==
  /\ Idle /\ Held
  /\ \E S \in Parts("vac") : \E filt \in Catalogue \cup Strangers :
       \E readable \in Readable(filt) :
         \E res \in {mag_calc_AB(S, filt, readable)} :
           frame' = [fn |-> "mag_calc_AB", pc |-> "done", S |-> S, filt |-> filt,
                     out |-> res.out, opened |-> res.opened,
                     modified |-> res.modified]

\* data on the grid 5000, 5001, ... (n points): flux d and error sigma at
\* every pixel (flat), or twice that at every second pixel; zero: the
\* first pixel has no error
Data(n, d, sigma, flat, zero) ==
  Make([i \in 1..n |-> (4999 + i) * ONE],
       [i \in 1..n |-> IF flat \/ i % 2 = 1 THEN d ELSE 2 * d],
       [i \in 1..n |-> IF zero /\ i = 1 THEN 0
                       ELSE IF flat \/ i % 2 = 1 THEN sigma ELSE 2 * sigma],
       "vac", "AA", "erg/(s cm2 AA)")
\* a model of constant flux m without errors: on the n points of the data
\* grid, on its two ends only, on its first point only; in air; in Jy
Models(n, m) ==
  LET On(x, wave, y_unit) ==
        Make(x, [i \in 1..Len(x) |-> m], [i \in 1..Len(x) |-> 0], wave, "AA", y_unit)
      grid == [i \in 1..n |-> (4999 + i) * ONE]
  IN {On(grid, "vac", "erg/(s cm2 AA)"),
      On(<<5000 * ONE, (4999 + n) * ONE>>, "vac", "erg/(s cm2 AA)"),
      On(<<5000 * ONE>>, "vac", "erg/(s cm2 AA)"),
      On(grid, "air", "erg/(s cm2 AA)"), On(grid, "vac", "Jy")}

\* model.scale_model(data, return_scaling_factor)
ScaleModel ==
  /\ Idle /\ Held
  /\ \E n \in {2, 11} : \E m \in {ONE, 2 * ONE} : \E self \in Models(n, m) :
     \E d \in {ONE, 3 * ONE} : \E sigma \in {ONE \div 10, ONE \div 2} :
     \E flat \in BOOLEAN : \E zero \in BOOLEAN :
     \E other \in {SpecArg(Data(n, d, sigma, flat, zero)), FloatArg(d)} :
     \E return_scaling_factor \in BOOLEAN : \E lenient \in BOOLEAN :
       \E res \in {scale_model(self, other, return_scaling_factor, lenient)} :
         frame' = [fn |-> "scale_model", pc |-> "done", self |-> self,
                   other |-> other, out |-> res.out, ret |-> res.ret,
                   A |-> res.A, pair |-> res.pair]

\* sources to resample: the spectra of Parts, three pixels in no order
\* with a bend in flux and error, and two pixels at one wavelength
Sources ==
  LET P(x, y, e) == Make(x, y, e, "vac", "AA", "erg/(s cm2 AA)")
  IN Parts("vac")
     \cup {P(<<6000 * ONE, 4000 * ONE, 5000 * ONE>>, <<3 * ONE, ONE, 4 * ONE>>,
              <<ONE \div 2, ONE \div 5, 0>>),
           P(<<5000 * ONE, 5000 * ONE, 6000 * ONE>>, <<ONE, 5 * ONE, 7 * ONE>>,
              <<ONE \div 2, ONE \div 2, ONE>>)}
\* what self is resampled onto: itself, its own wavelength array, points
\* around 4000 A, between 4500 and 6000 A, around 7000 A, no point, an
\* integer array, a spectrum in air, a number
Targets(self) ==
  {SpecArg(self), ArrayArg(self.x, "f"),
   ArrayArg(<<4000 * ONE - 1, 4000 * ONE, 4333 * ONE + 33>>, "f"),
   ArrayArg(<<4500 * ONE, 5500 * ONE + 50, 6000 * ONE>>, "f"),
   ArrayArg(<<7000 * ONE, 5500 * ONE + 50, 6000 * ONE + 1>>, "f"),
   ArrayArg(<<>>, "f"), ArrayArg(<<4000 * ONE, 5000 * ONE>>, "i"),
   FloatArg(5000 * ONE)}
  \cup {SpecArg(P) : P \in {Q \in Parts("air") : Len(Q.x) = 2}}

\* self.interp_wave(X, kind)
InterpWave ==
  /\ Idle /\ Held
  /\ \E self \in Sources : \E X \in Targets(self) :
     \E kind \in {"linear", "spam"} : \E lenient \in BOOLEAN :
       \E res \in {interp_wave(self, X, kind, lenient)} :
         frame' = [fn |-> "interp_wave", pc |-> "done", self |-> self, X |-> X,
                   kind |-> kind, out |-> res.out,
                   ret |-> IF res.out = "ok" THEN Temp(res) ELSE NoVal,
                   fresh |-> ~res.fx.sh /\ ~res.fy.sh /\ ~res.fe.sh]

\* the longest array handed to convolve_gaussian
MaxPixels == 40
\* a loop that stops one doubling short
stops_short(N_out, N_in) == 2 * N_out < N_in
\* while N_out < N_in
while_cond(N_out, N_in) == N_out < N_in
\* convolve_gaussian(x, y, FWHM) with N = len(x) >= 1 (x[0] exists) comes
\* to next_pow_2(10*len(x)): N_out = 1
NextPow2Call ==
  /\ Idle /\ Held
  /\ \E N \in 1..MaxPixels :
       frame' = [fn |-> "next_pow_2", pc |-> "loop", N |-> N,
                 N_in |-> 10 * N, N_out |-> 1]
\* one pass of the loop: N_out *= 2
NextPow2Loop ==
  /\ frame.fn = "next_pow_2" /\ frame.pc = "loop"
  /\ while_cond(frame.N_out, frame.N_in)
  /\ frame' = [frame EXCEPT !.N_out = @ * 2]
  /\ Held
\* return N_out: the length of the grid np.linspace builds
NextPow2Return ==
  /\ frame.fn = "next_pow_2" /\ frame.pc = "loop"
  /\ ~while_cond(frame.N_out, frame.N_in)
  /\ frame' = [frame EXCEPT !.pc = "done"]
  /\ Held

\* the longest file, in lines, and the count up to which skip is told
\* apart (MaxSkip stands for every larger count as well)
MaxLines == 3
MaxSkip == 5
\* line.startswith("END"); a line is the sequence of its characters
startswith_END(line) == Len(line) >= 3 /\ SubSeq(line, 1, 3) = <<"E", "N", "D">>
\* the text files of at most MaxLines lines: the line "END", an indented
\* " END", a blank line, a line of data
Files ==
  LET Lines == {<<"E", "N", "D", "\n">>, <<" ", "E", "N", "D", "\n">>,
                <<"\n">>, <<"1", " ", "2", "\n">>}
  IN UNION {[1..n -> Lines] : n \in 0..MaxLines}
\* model_from_dk(fname) of spectra/__init__.py (module "spectra") and of
\* spectra/spec_io.py opens the file F; the first sets skip = 1, the
\* second has not bound skip yet (0)
ModelFromDk ==
  /\ Idle /\ Held
  /\ \E F \in Files : \E module \in {"spectra", "spectra.spec_io"} :
       frame' = [fn |-> "model_from_dk", module |-> module,
                 pc |-> IF module = "spectra" THEN "readline" ELSE "for",
                 F |-> F, pos |-> 0, line |-> <<>>,
                 skip |-> IF module = "spectra" THEN 1 ELSE 0]
\* spectra/__init__.py: line = F.readline(), the empty string at the end
\* of the file
Readline ==
  /\ frame.fn = "model_from_dk" /\ frame.pc = "readline"
  /\ frame' = IF frame.pos < Len(frame.F)
              THEN [frame EXCEPT !.line = frame.F[frame.pos + 1],
                                 !.pos = @ + 1, !.pc = "if"]
              ELSE [frame EXCEPT !.line = <<>>, !.pc = "if"]
  /\ Held
\* spectra/__init__.py: if line.startswith("END"): break, else: skip += 1
\* and round the while True loop again
BreakOrSkip ==
  /\ frame.fn = "model_from_dk" /\ frame.pc = "if" /\ frame.module = "spectra"
  /\ frame' = IF startswith_END(frame.line) THEN [frame EXCEPT !.pc = "done"]
              ELSE [frame EXCEPT !.pc = "readline",
                                 !.skip = IF @ < MaxSkip THEN @ + 1 ELSE @]
  /\ Held
\* spectra/spec_io.py: for skip, line in enumerate(Fdk, 1) takes the next
\* line, or ends the loop at the end of the file
ForLine ==
  /\ frame.fn = "model_from_dk" /\ frame.pc = "for"
  /\ frame' = IF frame.pos < Len(frame.F)
              THEN [frame EXCEPT !.line = frame.F[frame.pos + 1],
                                 !.pos = @ + 1, !.skip = frame.pos + 1,
                                 !.pc = "if"]
              ELSE [frame EXCEPT !.pc = "done"]
  /\ Held
\* spectra/spec_io.py: if line.startswith("END"): break
Break ==
  /\ frame.fn = "model_from_dk" /\ frame.pc = "if"
  /\ frame.module = "spectra.spec_io"
  /\ frame' = [frame EXCEPT !.pc = IF startswith_END(frame.line) THEN "done"
                                  ELSE "for"]
  /\ Held

NextCalls ==
  \/ Join
  \/ SplitJoined
  \/ LoadTransmissionCurve
  \/ MagCalcAB
  \/ ScaleModel
  \/ InterpWave
  \/ NextPow2Call
  \/ NextPow2Loop
  \/ NextPow2Return
  \/ ModelFromDk
  \/ Readline
  \/ BreakOrSkip
  \/ ForLine
  \/ Break

Calls == Init /\ [][NextCalls]_vars

\* the interpreter goes on to the next statement of a function it is running
Running ==
  /\ WF_vars(NextPow2Loop)
  /\ WF_vars(NextPow2Return)
  /\ WF_vars(Readline)
  /\ WF_vars(BreakOrSkip)
  /\ WF_vars(ForLine)
  /\ WF_vars(Break)
FairCalls == Calls /\ Running

(* ------------------------------- claims ------------------------------- *)
\* the Spectrum in variable k now, and before the last call
Cur(k) == Val(heap, specs[k])
Before(k) == last.prev[k]
\* the receiver and the Spectrum operand of the last call as they were
\* before it, and the Spectrum it returned
Recv == last.prev[last.r]
Opnd == last.prev[last.o]
Result == Val(heap, specs[last.d])

\* a Spectrum of plain float arrays with finite values
Plain(s) ==
  /\ s.live /\ ~s.masked
  /\ s.xdt = "f" /\ s.ydt = "f" /\ s.edt = "f"
  /\ AllOf(IsFin, s.x) /\ AllOf(IsFin, s.y) /\ AllOf(IsFin, s.e)
NonZero(y) == \A i \in 1..Len(y) : y[i] # 0

\* two wavelengths agree to a relative 1e-5
Near(a, b) ==
  IF IsNaN(a) \/ IsNaN(b) THEN FALSE
  ELSE IF IsInf(a) \/ IsInf(b) THEN a = b
  ELSE Abs(a - b) <= Abs(b) \div 100000
GridsAgree(a, b) ==
  /\ Len(a.x) = Len(b.x)
  /\ \A i \in 1..Len(a.x) : Near(a.x[i], b.x[i])
Average(a, b) == [i \in 1..Len(a.x) |-> FHalf(FAdd(a.x[i], b.x[i]))]

\* the fields x, y, e, wave, x_unit, y_unit of s and t are equal
SameFields(s, t) ==
  /\ s.x = t.x /\ s.y = t.y /\ s.e = t.e
  /\ s.wave = t.wave /\ s.x_unit = t.x_unit /\ s.y_unit = t.y_unit

\* C1: in every reachable state the three arrays of every live Spectrum
\* have the same length and no error value is negative (a NaN and a masked
\* pixel are not counted as negative).
C1_LengthsEqualErrorsNonNegative ==
  \A k \in Slots : specs[k].live =>
    LET s == Cur(k)
    IN /\ Len(s.x) = Len(s.y) /\ Len(s.y) = Len(s.e)
       /\ \A i \in 1..Len(s.e) :
            (s.masked /\ s.mask[i]) \/ IsNaN(s.e[i]) \/ s.e[i] >= 0

\* C2: for plain spectra S1, S2 of equal length with close grids and equal
\* units, S1+S2 returns flux y1+y2 with error sqrt(e1^2+e2^2), S1*S2
\* returns flux y1*y2 with error |y1*y2|*sqrt((e1/y1)^2+(e2/y2)^2), and the
\* wavelengths of both results are the average of the operands'.
C2_SumAndProduct ==
  (/\ last.op \in {"__add__", "__mul__"} /\ last.arg.k = "spec"
   /\ Plain(Recv) /\ Plain(Opnd) /\ GridsAgree(Recv, Opnd)
   /\ Recv.x_unit = Opnd.x_unit /\ Recv.y_unit = Opnd.y_unit)
  => /\ last.out = "ok"
     /\ Result.x = Average(Recv, Opnd)
     /\ last.op = "__add__" =>
          /\ Result.y = Map2(FAdd, Recv.y, Opnd.y)
          /\ Result.e = Map2(FHypot, Recv.e, Opnd.e)
     /\ last.op = "__mul__" =>
          /\ Result.y = Map2(FMul, Recv.y, Opnd.y)
          /\ Result.e = [i \in 1..Len(Recv.y) |->
                           FMul(FAbs(FMul(Recv.y[i], Opnd.y[i])),
                                FHypot(FDiv(Recv.e[i], Recv.y[i]),
                                       FDiv(Opnd.e[i], Opnd.y[i])))]

\* C3: for a plain Spectrum S with non-zero flux and a scalar p of either
\* sign, S**p returns flux y^p and error p*y^p*(e/y) with the wavelengths,
\* medium and units of S; any other exponent is a TypeError.
C3_Power ==
  (last.op = "__pow__" /\ Plain(Recv) /\ NonZero(Recv.y)) =>
    IF last.arg.k \in {"int", "float"}
    THEN /\ last.out = "ok"
         /\ Result.y = MapK(FPow, Recv.y, last.arg.v)
         /\ Result.e = [i \in 1..Len(Recv.y) |->
                          FDiv(FMul(FMul(last.arg.v, FPow(Recv.y[i], last.arg.v)),
                                    Recv.e[i]), Recv.y[i])]
         /\ Result.x = Recv.x /\ Result.wave = Recv.wave
         /\ Result.x_unit = Recv.x_unit /\ Result.y_unit = Recv.y_unit
    ELSE last.out = "TypeError"

\* C4: for a plain Spectrum S with non-zero flux and a scalar or
\* equal-length array k of either sign, k/S returns flux k/y and error
\* |k|*e/y^2, with the inverse of the flux unit of S.
C4_ReflectedDivision ==
  (/\ last.op = "__rtruediv__" /\ Plain(Recv) /\ NonZero(Recv.y)
   /\ last.arg.k \in {"int", "float", "array"}
   /\ last.arg.k = "array" => Len(last.arg.a) = Len(Recv.y))
  => /\ last.out = "ok"
     /\ Result.y = [i \in 1..Len(Recv.y) |-> FDiv(At(last.arg, i), Recv.y[i])]
     /\ Result.e = [i \in 1..Len(Recv.y) |->
                      FDiv(FMul(FAbs(At(last.arg, i)), Recv.e[i]),
                           FMul(Recv.y[i], Recv.y[i]))]
     /\ Result.y_unit = UInv(Recv.y_unit)

BinOps == {"__add__", "__sub__", "__mul__", "__truediv__"}
\* the last call was a binary operator between two Spectrum objects
BinaryOnSpectra == last.op \in BinOps /\ last.arg.k = "spec"
\* the last call raised and left every variable as it was
FailedFast == last.out # "ok" /\ \A k \in Slots : Cur(k) = Before(k)

\* C5 (as amended): a binary operator between two spectra fails fast, with
\* no result and no change, unless the operands have equal length, close
\* wavelengths and equal wavelength unit; + and - also require equal flux
\* units, * and / do not.
C5_BinaryPreconditions ==
  BinaryOnSpectra =>
    \/ /\ GridsAgree(Recv, Opnd)
       /\ Recv.x_unit = Opnd.x_unit
       /\ last.op \in {"__add__", "__sub__"} => Recv.y_unit = Opnd.y_unit
    \/ FailedFast

\* C5 (as stated): each of the four binary operators fails fast unless the
\* operands have equal length, close wavelengths, equal wavelength unit and
\* equal flux unit.
C5_AsStated ==
  BinaryOnSpectra =>
    \/ /\ GridsAgree(Recv, Opnd)
       /\ Recv.x_unit = Opnd.x_unit
       /\ Recv.y_unit = Opnd.y_unit
    \/ FailedFast

\* a division of two spectra on grids that are not close was refused
C5_Witness ==
  /\ BinaryOnSpectra /\ last.op = "__truediv__"
  /\ Len(Recv.x) = Len(Opnd.x) /\ ~GridsAgree(Recv, Opnd)
  /\ Recv.x_unit = Opnd.x_unit
  /\ last.out = "AssertionError"

\* what air_to_vac / vac_to_air (op) has to do to a receiver that was p and
\* is now c, when the unit of p is (or need not be) Angstrom
Converted(op, p, c, anyUnit) ==
  LET to   == IF op = "air_to_vac" THEN "vac" ELSE "air"
      from == IF op = "air_to_vac" THEN "air" ELSE "vac"
      conv(w) == IF op = "air_to_vac" THEN air_to_vac(w) ELSE vac_to_air(w)
  IN IF ~anyUnit /\ p.x_unit # UAA
     THEN last.out = "AssertionError" /\ SameFields(c, p)
     ELSE IF p.wave = to THEN last.out = "ok" /\ SameFields(c, p)
     ELSE IF p.wave = from
     THEN /\ last.out = "ok"
          /\ c.wave = to
          /\ c.x = [i \in 1..Len(p.x) |-> conv(p.x[i])]
          /\ c.y = p.y /\ c.e = p.e
          /\ c.x_unit = p.x_unit /\ c.y_unit = p.y_unit
     ELSE last.out = "ValueError" /\ SameFields(c, p)

\* C6 (as amended): on a Spectrum (of plain arrays) whose wavelength unit is
\* Angstrom, air_to_vac on medium 'vac' and vac_to_air on medium 'air'
\* change nothing, on the opposite medium they convert the wavelengths and
\* flip the tag, and on any other medium they raise ValueError and change
\* nothing; with any other wavelength unit they raise AssertionError and
\* change nothing.
C6_MediumConversion ==
  last.op \in {"air_to_vac", "vac_to_air"} =>
    Converted(last.op, Recv, Cur(last.r), FALSE)

\* C6 (as stated): the same for every Spectrum, whatever its wavelength unit.
C6_AsStated ==
  last.op \in {"air_to_vac", "vac_to_air"} =>
    Converted(last.op, Recv, Cur(last.r), TRUE)

\* air_to_vac was called on a Spectrum that was already in vacuum
C6_Witness ==
  /\ last.op = "air_to_vac" /\ last.out = "ok"
  /\ Recv.wave = "vac" /\ Recv.x_unit = UAA /\ Len(Recv.x) > 0
  /\ Cur(last.r).x = Recv.x

\* C7: in every reachable state the medium of every live Spectrum is air or
\* vacuum ('vac' in the code; 'vacuum' is accepted here as well).
C7_MediumIsAirOrVacuum ==
  \A k \in Slots : specs[k].live => specs[k].wave \in {"air", "vac", "vacuum"}

\* C8: when one of the in-place methods apply_mask, norm_percentile,
\* air_to_vac, vac_to_air, apply_redshift, x_unit_to, y_unit_to raises, the
\* fields x, y, e, wave, x_unit and y_unit of the receiver are what they
\* were before the call.
C8_AllOrNothing ==
  (/\ last.op \in {"apply_mask", "norm_percentile", "air_to_vac", "vac_to_air",
                   "apply_redshift", "x_unit_to", "y_unit_to"}
   /\ last.out # "ok")
  => SameFields(Cur(last.r), Recv)

\* C9: y_unit_to('mag') on a plain Spectrum whose flux unit converts to Jy
\* leaves flux = flux_in_Jy / 3631 and error = error_in_Jy / 3631.
C9_MagnitudeConversion ==
  (/\ last.op = "y_unit_to" /\ last.arg.k = "str" /\ last.arg.str = "mag"
   /\ Plain(Recv) /\ Recv.y_unit \in {Uflam, UJy} /\ Recv.x_unit \in Spectral)
  => /\ last.out = "ok"
     /\ Cur(last.r).y =
          [i \in 1..Len(Recv.y) |->
             FDiv(spectral_density(Recv.y[i], ToAA(Recv.x[i], Recv.x_unit),
                                   Recv.y_unit, UJy), 3631 * ONE)]
     /\ Cur(last.r).e =
          [i \in 1..Len(Recv.e) |->
             FDiv(spectral_density(Recv.e[i], ToAA(Recv.x[i], Recv.x_unit),
                                   Recv.y_unit, UJy), 3631 * ONE)]

\* C10: apply_redshift on a plain Spectrum in air or vacuum with a velocity
\* of beta <= -1 or beta > 1 (in units of c) fails and leaves the
\* wavelengths unchanged; with |beta| < 1 it succeeds and leaves medium,
\* flux and error unchanged.  (beta = 1, whose outcome depends on the
\* version of the libraries, is not constrained here.)
C10_Redshift ==
  (/\ last.op = "apply_redshift" /\ last.arg.str \in Velocity
   /\ Plain(Recv) /\ Recv.wave \in {"air", "vac"})
  => IF last.arg.v <= 0 - ONE \/ last.arg.v > ONE
     THEN last.out # "ok" /\ Cur(last.r).x = Recv.x
     ELSE IF Abs(last.arg.v) < ONE
     THEN /\ last.out = "ok"
          /\ Cur(last.r).wave = Recv.wave
          /\ Cur(last.r).y = Recv.y /\ Cur(last.r).e = Recv.e
     ELSE TRUE

\* A and B have the same medium and units, and every wavelength of A is
\* below every wavelength of B
Apart(A, B) ==
  /\ A.live /\ B.live /\ Len(A.x) > 0 /\ Len(B.x) > 0
  /\ A.wave = B.wave /\ A.x_unit = B.x_unit /\ A.y_unit = B.y_unit
  /\ \A i \in 1..Len(A.x) : \A j \in 1..Len(B.x) : A.x[i] < B.x[j]
\* W is a boundary wavelength between A and B
Boundary(A, W, B) ==
  /\ W.k = "float"
  /\ \A i \in 1..Len(A.x) : A.x[i] <= W.v
  /\ \A j \in 1..Len(B.x) : W.v <= B.x[j]
SameArrays(P, S) == P.x = S.x /\ P.y = S.y /\ P.e = S.e

\* C11: for spectra A and B with the same medium and units and every
\* wavelength of A below every wavelength of B, A.join(B) returns a spectrum,
\* and splitting it at a boundary wavelength W between A and B returns
\* exactly two pieces whose x, y and e arrays are those of A and those of B.
C11_JoinThenSplit ==
  /\ (frame.fn = "join" /\ ~frame.sort /\ Apart(frame.self, frame.other.ob))
       => frame.out = "ok"
  /\ (/\ frame.fn = "split" /\ ~frame.sort /\ Apart(frame.A, frame.B)
      /\ Boundary(frame.A, frame.W, frame.B))
       => /\ frame.out = "ok"
          /\ Len(frame.pieces) = 2
          /\ SameArrays(frame.pieces[1], frame.A)
          /\ SameArrays(frame.pieces[2], frame.B)

\* C12: for every filter string that is not one of the catalogue's names,
\* load_transmission_curve and mag_calc_AB raise the invalid-filter error
\* (ValueError), no filter file has been opened, and the spectrum passed to
\* mag_calc_AB is not modified.
C12_UnknownFilterRejected ==
  (frame.fn \in {"load_transmission_curve", "mag_calc_AB"}
   /\ frame.filt \notin Catalogue)
    => /\ frame.out = "ValueError"
       /\ frame.opened = <<>>
       /\ (frame.fn = "mag_calc_AB" => ~frame.modified)

\* the tolerance of "A is approximately ...": two percent of 1.0
Tol == ONE \div 50
\* frame holds model.scale_model(data, True) for the scenario: data on the 11
\* wavelengths 5000 ... 5010 with flux 1.0 and error 0.1, a model of
\* constant flux 2.0 on the same wavelengths, in the same medium and units
Scenario ==
  /\ frame.fn = "scale_model" /\ frame.pair /\ frame.other.k = "spec"
  /\ LET data == frame.other.ob
         model == frame.self
     IN /\ Len(data.x) = 11 /\ model.x = data.x
        /\ \A i \in 1..11 : /\ data.x[i] = (4999 + i) * ONE
                            /\ data.y[i] = ONE /\ data.e[i] = ONE \div 10
                            /\ model.y[i] = 2 * ONE
        /\ model.wave = data.wave
        /\ model.x_unit = data.x_unit /\ model.y_unit = data.y_unit
\* sum(data*model/sigma^2)/sum(model^2/sigma^2) over the data points with
\* error > 0, for a model of constant flux m
WeightedFactor(data, m) ==
  LET good == nonzero([i \in 1..Len(data.e) |-> data.e[i] > 0])
      Over(F(_)) == sum([k \in 1..Len(good) |-> F(good[k])])
      DM(i) == FDiv(FMul(data.y[i], m), FMul(data.e[i], data.e[i]))
      MM(i) == FDiv(FMul(m, m), FMul(data.e[i], data.e[i]))
  IN FDiv(Over(DM), Over(MM))
\* the model is constant and its wavelengths span those of the data
SpansFlat(model, data) ==
  /\ Len(model.x) >= 2 /\ Len(data.x) >= 1
  /\ \A i \in 1..Len(model.y) : model.y[i] = model.y[1]
  /\ model.x[1] <= data.x[1] /\ data.x[Len(data.x)] <= model.x[Len(model.x)]
WeightedFit ==
  (/\ frame.fn = "scale_model" /\ frame.out = "ok" /\ frame.pair
   /\ SpansFlat(frame.self, frame.other.ob))
    => /\ IsFin(frame.A)
       /\ Abs(frame.A - WeightedFactor(frame.other.ob, frame.self.y[1])) <= Tol

\* C13: scale_model with return_scaling_factor returns the inverse-variance
\* weighted least-squares factor A = sum(data*model/sigma^2) /
\* sum(model^2/sigma^2) over the data points with error > 0; in the scenario
\* (11 points 5000..5010, data 1.0 +- 0.1, model 2.0) it returns A = 0.5
\* within tolerance.
C13_ScaleFactor ==
  /\ WeightedFit
  /\ Scenario => frame.out = "ok" /\ Abs(frame.A - ONE \div 2) <= Tol
\* C13 as stated: in the scenario the factor returned is A = 2.0
C13_AsStated ==
  /\ WeightedFit
  /\ Scenario => frame.out = "ok" /\ Abs(frame.A - 2 * ONE) <= Tol
\* the scenario's call has returned the pair (scaled model, A)
C13_Witness == Scenario /\ frame.out = "ok" /\ IsFin(frame.A)

Operators == {"__add__", "__sub__", "__mul__", "__truediv__", "__pow__",
              "__radd__", "__rsub__", "__rmul__", "__rtruediv__",
              "__neg__", "__abs__", "__getitem__"}
InPlace == {"norm_percentile", "redden", "apply_redshift"}

\* C14: the Spectrum returned by an arithmetic operator or by slice/mask
\* indexing shares no array with the receiver or the operand, and an
\* in-place mutator (norm_percentile, redden, apply_redshift) applied to one
\* Spectrum leaves the x, y and e arrays of every other Spectrum unchanged.
C14_NoSharedArrays ==
  /\ (last.op \in Operators /\ last.out = "ok" /\ last.d # last.r)
       => /\ Refs(specs[last.d]) \cap Refs(specs[last.r]) = {}
          /\ last.o # 0 => Refs(specs[last.d]) \cap Refs(specs[last.o]) = {}
  /\ last.op \in InPlace
       => \A k \in Slots \ {last.r} :
            /\ Cur(k).x = Before(k).x
            /\ Cur(k).y = Before(k).y
            /\ Cur(k).e = Before(k).e

\* the wavelengths a call of interp_wave resamples onto
TargetGrid == IF frame.X.k = "spec" THEN frame.X.ob.x ELSE frame.X.a
\* r is, within rounding, the value at v of the chord between the two
\* neighbouring knots of (x, y) around v
OnChord(x, y, v, r) ==
  \E j, k \in 1..Len(x) :
    /\ x[j] < x[k] /\ x[j] <= v /\ v <= x[k]
    /\ \A l \in 1..Len(x) : ~(x[j] < x[l] /\ x[l] < x[k])
    /\ 2 * Abs((r - y[j]) * (x[k] - x[j]) - (y[k] - y[j]) * (v - x[j]))
         <= x[k] - x[j]
\* the call returned a new spectrum on the target grid, linear inside the
\* range of self and 0 outside, and equal to self on the grid of self
Resampled ==
  LET self == frame.self
      ret  == frame.ret
      In(v) == \E j, k \in 1..Len(self.x) : self.x[j] <= v /\ v <= self.x[k]
  IN /\ frame.out = "ok" /\ frame.fresh
     /\ ret.x = TargetGrid /\ Len(ret.y) = Len(TargetGrid) /\ Len(ret.e) = Len(TargetGrid)
     /\ ret.wave = self.wave
     /\ ret.x_unit = self.x_unit /\ ret.y_unit = self.y_unit
     /\ \A i \in 1..Len(TargetGrid) :
          IF In(TargetGrid[i])
          THEN /\ OnChord(self.x, self.y, TargetGrid[i], ret.y[i])
               /\ OnChord(self.x, self.e, TargetGrid[i], ret.e[i])
          ELSE ret.y[i] = 0 /\ ret.e[i] = 0
     /\ TargetGrid = self.x => ret.y = self.y /\ ret.e = self.e
\* a linear interp_wave onto an array or a spectrum
LinearCall ==
  /\ frame.fn = "interp_wave" /\ frame.kind = "linear"
  /\ frame.X.k \in {"array", "spec"}
\* self has two pixels or more, no two at one wavelength, and a target
\* spectrum is in the medium of self
Proper ==
  /\ Len(frame.self.x) >= 2
  /\ \A j, k \in 1..Len(frame.self.x) : j # k => frame.self.x[j] # frame.self.x[k]
  /\ frame.X.k = "spec" => frame.X.ob.wave = frame.self.wave

InLoop == frame.fn = "next_pow_2" /\ frame.pc = "loop"
Returned == frame.fn = "next_pow_2" /\ frame.pc = "done"
\* P is the smallest power of two that is at least M
SmallestPow2(P, M) ==
  /\ \E k \in 0..30 : P = 2 ^ k
  /\ P >= M
  /\ P = 1 \/ P \div 2 < M
\* C16: for every input length N >= 1 the next_pow_2 loop of
\* convolve_gaussian terminates, and the grid length P it returns is the
\* smallest power of two with P >= 10*N, so that 10*N <= P < 20*N.
C16_NextPow2 ==
  /\ [](Returned => /\ SmallestPow2(frame.N_out, 10 * frame.N)
                     /\ 10 * frame.N <= frame.N_out
                     /\ frame.N_out < 20 * frame.N)
  /\ (InLoop ~> Returned)
\* next_pow_2(130) has returned 256 for an array of 13 pixels
C16_Witness == Returned /\ frame.N = 13 /\ frame.N_out = 256

\* model_from_dk is scanning the header of its file, and has left the scan
Scanning == frame.fn = "model_from_dk" /\ frame.pc # "done"
Scanned == frame.fn = "model_from_dk" /\ frame.pc = "done"
\* C17: the header scan of model_from_dk terminates for every finite file,
\* also for one without a line that starts with 'END', in the version of
\* spectra/__init__.py and in the version of spectra/spec_io.py.
C17_HeaderScanTerminates == Scanning ~> Scanned

====
